---------------------------- MODULE Spec2Model ----------------------------
(***************************************************************************)
(* A model of the schedule algebra of idragon/dragon/profile.py:           *)
(*   DaySchedule  (IntradayProfile): 144 ten-minute slots of one day,      *)
(*   RuleSet      (WeeklyPattern)  : day-category -> DaySchedule,          *)
(*   Schedule     (AnnualCalendar) : 365 references to RuleSet objects.    *)
(* A call that raises is modelled by a result record with ok = FALSE and   *)
(* the name of the Python exception in err; a raising call changes nothing.*)
(***************************************************************************)
EXTENDS Integers, Sequences, FiniteSets, TLC

VARIABLES
    day,    \* the two DaySchedule objects a and b: name -> [type, data]
    bp,     \* the caller's breakpoint list handed to DaySchedule.from_compact
    week,   \* the two RuleSet objects p and q
    cal,    \* the data list of one Schedule: 365 references to RuleSet objects
    log,    \* the apply calls made on cal so far, oldest first
    res     \* what the last call returned or raised

vars == <<day, bp, week, cal, log, res>>

(***************************************************************************)
(* Bounds of the model.                                                    *)
(***************************************************************************)
\* how many of the slots listed in SlotPick the model writes into
NumWriteSlots == 2
\* longest breakpoint list handed to DaySchedule.from_compact
MaxBp == 3
\* most apply calls made on one Schedule
MaxCalls == 2

(***************************************************************************)
(* Results of calls.                                                       *)
(***************************************************************************)
Ok(v) == [ok |-> TRUE, val |-> v]

Err(e) == [ok |-> FALSE, err |-> e]

Last(s) == s[Len(s)]

(***************************************************************************)
(* ScheduleType and DaySchedule.                                           *)
(***************************************************************************)
TEMPERATURE == "temperature"

ONOFF == "onoff"

REAL == "real"

ScheduleType == {TEMPERATURE, ONOFF, REAL}

DATA_INTERVAL == 6

MAX_TEMPERATURE == 200

MIN_TEMPERATURE == -50

fixed_length == DATA_INTERVAL * 24

\* value = None in DaySchedule.__init__: [0] * fixed_length
Zeros == [i \in 1..fixed_length |-> 0]

\* the temperature check with the upper bound left out of the range
ItemAcceptedMutant(type, item) ==
    CASE type = TEMPERATURE -> (MIN_TEMPERATURE <= item) /\ (item < MAX_TEMPERATURE)
      [] type = ONOFF       -> item \in {0, 1}
      [] type = REAL        -> TRUE

\* the domain check of DaySchedule.__setitem__ : TRUE when no ValueError
ItemAccepted(type, item) ==
    CASE type = TEMPERATURE -> (MIN_TEMPERATURE <= item) /\ (item <= MAX_TEMPERATURE)
      [] type = ONOFF       -> item \in {0, 1}
      [] type = REAL        -> TRUE

\* DaySchedule.__setitem__(index, item) on the object self; index is 1-based here
DaySchedule_setitem(self, index, item) ==
    IF ~ItemAccepted(self.type, item)
    THEN Err("ValueError")
    ELSE Ok([self EXCEPT !.data[index] = item])

\* a call that passes no keyword argument
NoKw == <<>>

\* DaySchedule(name, value, **kwargs): kwargs is the record of keyword
\* arguments of the call; __init__ takes the keywords type and unit only
DaySchedule_init(value, kwargs) ==
    IF ~(DOMAIN kwargs \subseteq {"type", "unit"})
    THEN Err("TypeError")
    ELSE LET type == IF "type" \in DOMAIN kwargs THEN kwargs["type"] ELSE REAL
         IN  IF Len(value) # fixed_length
             THEN Err("ValueError")
             ELSE IF \E i \in 1..fixed_length : ~ItemAccepted(type, value[i])
                  THEN Err("ValueError")
                  ELSE Ok([type |-> type, data |-> value])

\* Python's bool(x) and int(b) on the slot values
BoolOf(x) == x # 0

IntOf(b) == IF b THEN 1 ELSE 0

AndMutant(self, other) ==
    IF (self.type # ONOFF) \/ (other.type # ONOFF)
    THEN Err("TypeError")
    ELSE DaySchedule_init(
            [i \in 1..fixed_length |-> IntOf(BoolOf(self.data[i]) /\ ~BoolOf(other.data[i]))],
            NoKw)

\* DaySchedule.__and__
DaySchedule_and(self, other) ==
    IF (self.type # ONOFF) \/ (other.type # ONOFF)
    THEN Err("TypeError")
    ELSE DaySchedule_init(
            [i \in 1..fixed_length |-> IntOf(BoolOf(self.data[i]) /\ BoolOf(other.data[i]))],
            NoKw)

\* DaySchedule.__or__
DaySchedule_or(self, other) ==
    IF (self.type # ONOFF) \/ (other.type # ONOFF)
    THEN Err("TypeError")
    ELSE DaySchedule_init(
            [i \in 1..fixed_length |-> IntOf(BoolOf(self.data[i]) \/ BoolOf(other.data[i]))],
            NoKw)

\* DaySchedule.__invert__
DaySchedule_invert(self) ==
    IF self.type # ONOFF
    THEN Err("TypeError")
    ELSE DaySchedule_init(
            [i \in 1..fixed_length |-> IntOf(~BoolOf(self.data[i]))],
            NoKw)

\* DaySchedule.__mul__
DaySchedule_mul(self, value) ==
    DaySchedule_init([i \in 1..fixed_length |-> self.data[i] * value],
                     [type |-> self.type])

\* DaySchedule.__add__
DaySchedule_add(self, other) ==
    IF self.type # other.type
    THEN Err("TypeError")
    ELSE DaySchedule_init([i \in 1..fixed_length |-> self.data[i] + other.data[i]],
                          [type |-> self.type])

\* DaySchedule.__sub__ : self + other * (-1)
DaySchedule_sub(self, other) ==
    IF self.type # other.type
    THEN Err("TypeError")
    ELSE LET neg == DaySchedule_mul(other, -1)
         IN  IF ~neg.ok THEN neg ELSE DaySchedule_add(self, neg.val)

Min2(x, y) == IF y < x THEN y ELSE x

Max2(x, y) == IF y > x THEN y ELSE x

\* DaySchedule.element_min
DaySchedule_element_min(self, other) ==
    DaySchedule_init([i \in 1..fixed_length |-> Min2(self.data[i], other.data[i])],
                     NoKw)

\* DaySchedule.element_max
DaySchedule_element_max(self, other) ==
    DaySchedule_init([i \in 1..fixed_length |-> Max2(self.data[i], other.data[i])],
                     NoKw)

(***************************************************************************)
(* Compaction of one day.                                                  *)
(***************************************************************************)
\* DaySchedule.time_tuple(): the end time (hh, mm) of each slot
time_tuple ==
    [i \in 1..fixed_length |->
        LET hh == (i - 1) \div DATA_INTERVAL
            n  == ((i - 1) % DATA_INTERVAL) + 1
            mm == (n * 60) \div DATA_INTERVAL
        IN  <<hh + (IF mm = 60 THEN 1 ELSE 0), IF mm = 60 THEN 0 ELSE mm>>]

\* Python's order on the tuples (hh, mm)
TimeLe(s, t) == (s[1] < t[1]) \/ (s[1] = t[1] /\ s[2] <= t[2])

\* the pass that never starts a new entry after the first slot
CompactizeStepMutant(data, idx, compact_tuples) ==
    LET new_tuple == <<time_tuple[idx][1], time_tuple[idx][2], data[idx]>>
    IN  IF idx = 1
        THEN Append(compact_tuples, new_tuple)
        ELSE [compact_tuples EXCEPT ![Len(compact_tuples)] = new_tuple]

\* one pass of the loop of DaySchedule.compactize, at slot idx
CompactizeStep(data, idx, compact_tuples) ==
    LET new_tuple == <<time_tuple[idx][1], time_tuple[idx][2], data[idx]>>
    IN  IF (idx = 1) \/ (data[idx] # data[idx - 1])
        THEN Append(compact_tuples, new_tuple)
        ELSE [compact_tuples EXCEPT ![Len(compact_tuples)] = new_tuple]

\* the passes lo..hi of that loop, in order; they are split in halves, and
\* the first half is evaluated (the test on Len) before the second is begun,
\* to keep TLC's evaluation shallow
RECURSIVE CompactizeLoop(_, _, _, _)
CompactizeLoop(data, lo, hi, compact_tuples) ==
    IF lo > hi
    THEN compact_tuples
    ELSE IF lo = hi
         THEN CompactizeStep(data, lo, compact_tuples)
         ELSE LET mid  == (lo + hi) \div 2
                  half == CompactizeLoop(data, lo, mid, compact_tuples)
              IN  IF Len(half) > 0
                  THEN CompactizeLoop(data, mid + 1, hi, half)
                  ELSE half

\* DaySchedule.compactize
DaySchedule_compactize(self) == CompactizeLoop(self.data, 1, Len(self.data), <<>>)

\* one pass of the loop of DaySchedule.from_compact, at slot idx: st.values is
\* the caller's list, popped as the loop goes, st.val the schedule_values so
\* far; IndexError when the list has run empty
ExpandStep(st, idx) ==
    IF ~st.ok
    THEN st
    ELSE IF Len(st.values) = 0
         THEN [ok |-> FALSE, err |-> "IndexError", values |-> st.values, val |-> st.val]
         ELSE IF TimeLe(time_tuple[idx], <<st.values[1][1], st.values[1][2]>>)
              THEN [st EXCEPT !.val = Append(st.val, st.values[1][3])]
              ELSE LET popped == Tail(st.values)
                   IN  IF Len(popped) = 0
                       THEN [ok |-> FALSE, err |-> "IndexError", values |-> popped,
                             val |-> st.val]
                       ELSE [ok |-> TRUE, err |-> "", values |-> popped,
                             val |-> Append(st.val, popped[1][3])]

\* the passes lo..hi of that loop, in order, split in halves as above; the
\* loop ends at the first error
RECURSIVE ExpandLoop(_, _, _)
ExpandLoop(st, lo, hi) ==
    IF lo > hi
    THEN st
    ELSE IF lo = hi
         THEN ExpandStep(st, lo)
         ELSE LET mid  == (lo + hi) \div 2
                  half == ExpandLoop(st, lo, mid)
              IN  IF half.ok THEN ExpandLoop(half, mid + 1, hi) ELSE half

\* DaySchedule.from_compact(name, values, schedule_type): the result of the
\* call and, in values, the caller's list as the call leaves it
DaySchedule_from_compact(values, schedule_type) ==
    IF Len(values) = 0
    THEN [ok |-> FALSE, err |-> "IndexError", values |-> values]
    ELSE
    IF <<Last(values)[1], Last(values)[2]>> # <<24, 0>>
    THEN [ok |-> FALSE, err |-> "ValueError", values |-> values]
    ELSE LET e == ExpandLoop([ok |-> TRUE, err |-> "", values |-> values, val |-> <<>>],
                            1, fixed_length)
         IN  IF ~e.ok
             THEN [ok |-> FALSE, err |-> e.err, values |-> e.values]
             ELSE LET made == DaySchedule_init(e.val, [schedule_type |-> schedule_type])
                  IN  IF made.ok
                      THEN [ok |-> TRUE, val |-> made.val, values |-> e.values]
                      ELSE [ok |-> FALSE, err |-> made.err, values |-> e.values]

(***************************************************************************)
(* The day layer: two DaySchedule objects, written slot by slot and        *)
(* combined by the operators of the class.                                 *)
(***************************************************************************)
\* the slots (1-based) the model writes into, in the order the bound adds them
SlotPick == <<48, 144, 1, 49, 108, 2>>

WriteSlots == {SlotPick[k] : k \in 1..NumWriteSlots}

\* the items the model writes: 250 is outside the temperature and onoff domains
Items == {0, 1, 250}

Names == {"a", "b"}

\* the operand pairs of the binary calls the model makes: x op y and x op x
OperandPairs == {<<"a", "b">>, <<"a", "a">>}

Idle == [op |-> "none"]

\* a run of the model builds its profiles slot by slot and then makes one call
\* on them: no call follows the call whose result res holds
Building == res.op \in {"none", "setitem"}

InitDay ==
    /\ \E ta \in ScheduleType, tb \in ScheduleType :
          day = [a |-> DaySchedule_init(Zeros, [type |-> ta]).val,
                 b |-> DaySchedule_init(Zeros, [type |-> tb]).val]
    /\ bp = <<>>
    /\ week = Idle
    /\ cal = <<>>
    /\ log = <<>>
    /\ res = Idle

\* x[idx] = item
SetItem(x, idx, item) ==
    LET r == DaySchedule_setitem(day[x], idx, item)
    IN  /\ Building
        /\ day' = IF r.ok THEN [day EXCEPT ![x] = r.val] ELSE day
        /\ res' = [op |-> "setitem", ok |-> r.ok]
        /\ UNCHANGED <<bp, week, cal, log>>

\* x & y
And(x, y) ==
    /\ Building
    /\ res' = [op |-> "and", lhs |-> x, rhs |-> y,
               out |-> DaySchedule_and(day[x], day[y])]
    /\ UNCHANGED <<day, bp, week, cal, log>>

\* x | y
Or(x, y) ==
    /\ Building
    /\ res' = [op |-> "or", lhs |-> x, rhs |-> y,
               out |-> DaySchedule_or(day[x], day[y])]
    /\ UNCHANGED <<day, bp, week, cal, log>>

\* ~x
Invert(x) ==
    /\ Building
    /\ res' = [op |-> "invert", lhs |-> x, out |-> DaySchedule_invert(day[x])]
    /\ UNCHANGED <<day, bp, week, cal, log>>

\* ~(x & y)
NotOfAnd(x, y) ==
    LET c == DaySchedule_and(x, y)
    IN  IF ~c.ok THEN c ELSE DaySchedule_invert(c.val)

\* (~x) | (~y)
OrOfNots(x, y) ==
    LET nx == DaySchedule_invert(x)
    IN  IF ~nx.ok
        THEN nx
        ELSE LET ny == DaySchedule_invert(y)
             IN  IF ~ny.ok THEN ny ELSE DaySchedule_or(nx.val, ny.val)

\* both sides of De Morgan's law evaluated on a and b
DeMorgan ==
    /\ Building
    /\ res' = [op |-> "demorgan",
               left  |-> NotOfAnd(day["a"], day["b"]),
               right |-> OrOfNots(day["a"], day["b"])]
    /\ UNCHANGED <<day, bp, week, cal, log>>

\* x.compactize()
Compactize(x) ==
    /\ Building
    /\ res' = [op |-> "compactize", lhs |-> x, out |-> DaySchedule_compactize(day[x])]
    /\ UNCHANGED <<day, bp, week, cal, log>>

\* DaySchedule.from_compact(name, x.compactize(), x.type)
FromCompactOfCompactize(x) ==
    /\ Building
    /\ res' = [op |-> "from_compact_of_compactize", lhs |-> x,
               out |-> DaySchedule_from_compact(DaySchedule_compactize(day[x]),
                                                day[x].type)]
    /\ UNCHANGED <<day, bp, week, cal, log>>

NextDay ==
    \/ \E x \in Names, idx \in WriteSlots, item \in Items : SetItem(x, idx, item)
    \/ \E xy \in OperandPairs : And(xy[1], xy[2])
    \/ \E xy \in OperandPairs : Or(xy[1], xy[2])
    \/ \E x \in Names : Invert(x)
    \/ DeMorgan
    \/ \E x \in Names : Compactize(x)
    \/ \E x \in Names : FromCompactOfCompactize(x)

SpecDay == InitDay /\ [][NextDay]_vars

\* C1: for every valid 144-slot profile x of any domain, from_compact applied
\* to x.compactize() succeeds and gives back the slots of x, slot by slot.
C1_FromCompactOfCompactize ==
    (res.op = "from_compact_of_compactize") =>
        /\ res.out.ok
        /\ \A i \in 1..fixed_length : res.out.val.data[i] = day[res.lhs].data[i]

\* C9: for Binary profiles a and b, not(and(a, b)) and or(not(a), not(b))
\* both evaluate without error and are equal slot by slot (De Morgan).
C9_DeMorgan ==
    (res.op = "demorgan" /\ day["a"].type = ONOFF /\ day["b"].type = ONOFF) =>
        /\ res.left.ok
        /\ res.right.ok
        /\ \A i \in 1..fixed_length : res.left.val.data[i] = res.right.val.data[i]

\* C10: for a Binary profile a, and(a, a) equals a slot by slot.
C10_AndIdempotent ==
    (res.op = "and" /\ res.lhs = res.rhs /\ day[res.lhs].type = ONOFF) =>
        /\ res.out.ok
        /\ \A i \in 1..fixed_length : res.out.val.data[i] = day[res.lhs].data[i]

\* and(a, a) was evaluated on a Binary profile that holds both a 0 and a 1
C10_Witness ==
    /\ res.op = "and"
    /\ res.lhs = res.rhs
    /\ day[res.lhs].type = ONOFF
    /\ res.out.ok
    /\ \E i, j \in 1..fixed_length :
          day[res.lhs].data[i] = 0 /\ day[res.lhs].data[j] = 1

(***************************************************************************)
(* The breakpoint layer: a caller's breakpoint list handed to              *)
(* DaySchedule.from_compact.                                               *)
(***************************************************************************)
\* the times (hh, mm) of the breakpoints the model draws: slot ends, 24:00,
\* 00:00 and one time off the ten-minute grid
BpTimes == {<<0, 0>>, <<0, 10>>, <<8, 0>>, <<8, 5>>, <<18, 0>>, <<23, 50>>, <<24, 0>>}

BpValues == {0, 1}

BpEntries == {<<t[1], t[2], v>> : t \in BpTimes, v \in BpValues}

TimeLt(s, t) == (s[1] < t[1]) \/ (s[1] = t[1] /\ s[2] < t[2])

\* the lists of n breakpoints with strictly increasing times
BpListsOfLen(n) ==
    {s \in [1..n -> BpEntries] : \A i \in 1..(n - 1) : TimeLt(s[i], s[i + 1])}

BreakpointLists == UNION {BpListsOfLen(n) : n \in 1..MaxBp}

InitBp ==
    /\ bp \in BreakpointLists
    /\ day = Idle
    /\ week = Idle
    /\ cal = <<>>
    /\ log = <<>>
    /\ res = Idle

\* DaySchedule.from_compact(name, bp, t): the call pops the caller's list
FromCompact(t) ==
    LET r == DaySchedule_from_compact(bp, t)
    IN  /\ res' = [op |-> "from_compact", type |-> t, arg |-> bp,
                   out |-> IF r.ok THEN Ok(r.val) ELSE Err(r.err)]
        /\ bp' = r.values
        /\ UNCHANGED <<day, week, cal, log>>

\* DaySchedule.from_compact(name, bp, t).compactize()
CompactizeOfFromCompact(t) ==
    LET r == DaySchedule_from_compact(bp, t)
    IN  /\ res' = [op |-> "compactize_of_from_compact", type |-> t, arg |-> bp,
                   out |-> IF r.ok THEN Ok(DaySchedule_compactize(r.val))
                                   ELSE Err(r.err)]
        /\ bp' = r.values
        /\ UNCHANGED <<day, week, cal, log>>

NextBp ==
    \/ \E t \in ScheduleType : FromCompact(t)
    \/ \E t \in ScheduleType : CompactizeOfFromCompact(t)

SpecBp == InitBp /\ [][NextBp]_vars

\* the end times of the 144 slots: the ten-minute grid of a breakpoint list
OnGrid(e) == \E i \in 1..fixed_length : time_tuple[i] = <<e[1], e[2]>>

\* a well-formed breakpoint list: times strictly increasing on the grid,
\* consecutive values different, the final entry at (24, 0)
WellFormed(b) ==
    /\ Len(b) >= 1
    /\ \A i \in 1..Len(b) : OnGrid(b[i])
    /\ \A i \in 1..(Len(b) - 1) : TimeLt(b[i], b[i + 1]) /\ b[i][3] # b[i + 1][3]
    /\ <<Last(b)[1], Last(b)[2]>> = <<24, 0>>

\* C2: for every well-formed breakpoint list b, from_compact(b).compactize()
\* returns a list equal to b entry by entry; [(8,0,0),(18,0,1),(24,0,0)] in
\* the Binary domain comes back as itself.
C2_CompactizeOfFromCompact ==
    (res.op = "compactize_of_from_compact" /\ WellFormed(res.arg)) =>
        /\ res.out.ok
        /\ res.out.val = res.arg

\* C14: from_compact raises ValueError and makes no profile exactly when the
\* final entry of the list is not at (24, 0); a list whose final entry is at
\* (24, 0) is accepted and gives a profile of 144 slots of the requested type.
C14_MalformedExactlyWhenNoFinal2400 ==
    (res.op = "from_compact") =>
        IF <<Last(res.arg)[1], Last(res.arg)[2]>> # <<24, 0>>
        THEN /\ ~res.out.ok
             /\ res.out.err = "ValueError"
        ELSE /\ res.out.ok
             /\ Len(res.out.val.data) = fixed_length
             /\ res.out.val.type = res.type

\* the slot (1-based) that ends at the time of a breakpoint entry on the grid
SlotEndingAt(e) == CHOOSE i \in 1..fixed_length : time_tuple[i] = <<e[1], e[2]>>

EarliestAtOrAfter(b, t) ==
    b[CHOOSE k \in 1..Len(b) :
        /\ TimeLe(t, <<b[k][1], b[k][2]>>)
        /\ \A j \in 1..(k - 1) : ~TimeLe(t, <<b[j][1], b[j][2]>>)][3]

\* C16: for every breakpoint list with strictly increasing times that ends at
\* (24, 0), on or off the ten-minute grid, from_compact gives each of the 144
\* slots the value of the earliest breakpoint at or after the slot's end time.
C16_EachSlotTakesEarliestBreakpoint ==
    (/\ res.op = "from_compact"
     /\ \A k \in 1..(Len(res.arg) - 1) : TimeLt(res.arg[k], res.arg[k + 1])
     /\ <<Last(res.arg)[1], Last(res.arg)[2]>> = <<24, 0>>)
    => /\ res.out.ok
       /\ \A i \in 1..fixed_length :
             res.out.val.data[i] = EarliestAtOrAfter(res.arg, time_tuple[i])

\* C30: DaySchedule.from_compact leaves the breakpoint list the caller
\* passed as it was, so that passing the same list again gives the same
\* result.
C30_FromCompactLeavesList ==
    res.op = "from_compact"
    => /\ bp = res.arg
       /\ LET again == DaySchedule_from_compact(bp, res.type)
          IN  /\ again.ok = res.out.ok
              /\ again.ok => again.val = res.out.val
              /\ ~again.ok => again.err = res.out.err

(***************************************************************************)
(* RuleSet: the profiles of one typical week, by day category.             *)
(***************************************************************************)
\* Python's None where a DaySchedule may stand
None == [type |-> "None", data |-> <<>>]

\* the parameters of RuleSet.__init__ after name: weekdays and weekends
\* (positional or keyword) and the keyword-only day categories
RuleSetParams ==
    {"weekdays", "weekends", "monday", "tuesday", "wednesday", "thursday",
     "friday", "saturday", "sunday", "holiday"}

\* DaySchedule("anonymous"): the one default instance of weekdays and weekends
AnonymousDay == DaySchedule_init(Zeros, NoKw).val

\* RuleSet(name, **kwargs): kwargs is the record of the arguments of the call
RuleSet_init(kwargs) ==
    IF ~(DOMAIN kwargs \subseteq RuleSetParams)
    THEN Err("TypeError")
    ELSE LET arg(k) == IF k \in DOMAIN kwargs
                       THEN kwargs[k]
                       ELSE IF k \in {"weekdays", "weekends"}
                            THEN AnonymousDay
                            ELSE None
         IN  IF \E k \in RuleSetParams \ {"weekdays"} :
                    (arg(k) # None) /\ (arg(k).type # arg("weekdays").type)
             THEN Err("ValueError")
             ELSE Ok([type      |-> arg("weekdays").type,
                      weekdays  |-> arg("weekdays"),
                      weekends  |-> arg("weekends"),
                      monday    |-> arg("monday"),
                      tuesday   |-> arg("tuesday"),
                      wednesday |-> arg("wednesday"),
                      thursday  |-> arg("thursday"),
                      friday    |-> arg("friday"),
                      saturday  |-> arg("saturday"),
                      sunday    |-> arg("sunday"),
                      holiday   |-> arg("holiday")])

\* a profile of the given type that holds v1 up to 08:00 and v2 after it
StepDay(type, v1, v2) ==
    DaySchedule_init([i \in 1..fixed_length |-> IF i <= 48 THEN v1 ELSE v2],
                     [type |-> type]).val

(***************************************************************************)
(* Schedule: 365 references to RuleSet objects.  A reference is the        *)
(* identity of a RuleSet object: its name, and gen to tell apart the       *)
(* objects of separate constructor calls and of deep copies.               *)
(***************************************************************************)
FIXED_LENGTH == 365

Ref(name, gen) == [name |-> name, gen |-> gen]

\* the RuleSet objects the model applies: A and A2 are two objects of equal
\* content, B has other content (O, of type ONOFF, is applied in the object
\* layer only)
Patterns == {Ref("A", 0), Ref("A2", 0), Ref("B", 0)}

\* the content of the RuleSet object behind a reference
Content(ref) ==
    CASE ref.name = "anonymous" -> RuleSet_init(NoKw).val
      [] ref.name \in {"A", "A2"} ->
            RuleSet_init([weekdays |-> StepDay(REAL, 0, 1),
                          weekends |-> StepDay(REAL, 0, 0)]).val
      [] ref.name = "B" ->
            RuleSet_init([weekdays |-> StepDay(REAL, 1, 1),
                          weekends |-> StepDay(REAL, 0, 0),
                          saturday |-> StepDay(REAL, 0, 1)]).val
      [] ref.name = "O" ->
            RuleSet_init([weekdays |-> StepDay(ONOFF, 0, 1),
                          weekends |-> StepDay(ONOFF, 0, 0)]).val

\* RuleSet defines neither __eq__ nor __ne__: a != b on two RuleSet objects
\* is Python's default, the comparison of their identities
RuleSet_ne(x, y) == x # y

\* the days of the months of the reference year Setting.DEFAULT_YEAR
MonthDays == <<31, 28, 31, 30, 31, 30, 31, 31, 30, 31, 30, 31>>

RECURSIVE DateOfDay(_, _)
\* the date (month, day) that lies n days after the first of month m
DateOfDay(m, n) ==
    IF n < MonthDays[m] THEN <<m, n + 1>> ELSE DateOfDay(m + 1, n - MonthDays[m])

\* Schedule.TIME_TUPLE: the 365 dates from 1/1 of the reference year on
TIME_TUPLE == [i \in 1..FIXED_LENGTH |-> DateOfDay(1, i - 1)]

\* a date argument of apply: a str token of digits, or a datetime.date
Str(digits) == [kind |-> "str", v |-> digits]

Date(md) == [kind |-> "date", v |-> md]

\* datetime.date(DEFAULT_YEAR, mm, dd): ValueError when there is no such day
MakeDate(mm, dd) ==
    IF (mm \in 1..12) /\ (dd >= 1) /\ (dd <= MonthDays[mm])
    THEN Ok(<<mm, dd>>)
    ELSE Err("ValueError")

\* datetime_parser of Schedule.apply on a token of four digits "MMDD"
datetime_parser(datestr) ==
    MakeDate(10 * datestr[1] + datestr[2], 10 * datestr[3] + datestr[4])

\* start and end of apply as dates: a str is parsed, a date is taken as is
AsDate(x) == IF x.kind = "str" THEN datetime_parser(x.v) ELSE Ok(x.v)

\* the order of datetime.date within the reference year
DateLe(s, t) == (s[1] < t[1]) \/ (s[1] = t[1] /\ s[2] <= t[2])

\* deepcopy(self): every RuleSet object of the calendar is copied; gen names
\* the copies
DeepCopy(data, gen) == [i \in 1..Len(data) |-> Ref(data[i].name, gen)]

\* apply that writes into the receiver's list also when inplace is false
ApplyAliasMutant(data, ruleset, start, end, inplace, gen) ==
    LET s == AsDate(start)
        e == AsDate(end)
    IN  IF ~s.ok
        THEN [ok |-> FALSE, err |-> s.err, self |-> data]
        ELSE IF ~e.ok
             THEN [ok |-> FALSE, err |-> e.err, self |-> data]
             ELSE LET after == [idx \in 1..FIXED_LENGTH |->
                                    IF DateLe(s.val, TIME_TUPLE[idx])
                                       /\ DateLe(TIME_TUPLE[idx], e.val)
                                    THEN ruleset
                                    ELSE data[idx]]
                  IN  IF inplace
                      THEN [ok |-> TRUE, self |-> after, ret |-> <<>>]
                      ELSE [ok |-> TRUE, self |-> after, ret |-> after]

ApplyMutant(data, ruleset, start, end, inplace, gen) ==
    LET s == AsDate(start)
        e == AsDate(end)
    IN  IF ~s.ok
        THEN [ok |-> FALSE, err |-> s.err, self |-> data]
        ELSE IF ~e.ok
             THEN [ok |-> FALSE, err |-> e.err, self |-> data]
             ELSE LET target == IF inplace THEN data ELSE DeepCopy(data, gen)
                      after  == [idx \in 1..FIXED_LENGTH |->
                                    IF DateLe(s.val, TIME_TUPLE[idx])
                                       /\ DateLe(TIME_TUPLE[idx], e.val)
                                       /\ TIME_TUPLE[idx] # e.val
                                    THEN ruleset
                                    ELSE target[idx]]
                  IN  IF inplace
                      THEN [ok |-> TRUE, self |-> after, ret |-> <<>>]
                      ELSE [ok |-> TRUE, self |-> data, ret |-> after]

\* Schedule.apply(ruleset, start=start, end=end, inplace=inplace) on the
\* calendar whose data list is data: self is the data list after the call,
\* ret the data list of the calendar the call returns (none when in place)
Schedule_apply(data, ruleset, start, end, inplace, gen) ==
    LET s == AsDate(start)
        e == AsDate(end)
    IN  IF ~s.ok
        THEN [ok |-> FALSE, err |-> s.err, self |-> data]
        ELSE IF ~e.ok
             THEN [ok |-> FALSE, err |-> e.err, self |-> data]
             ELSE LET target == IF inplace THEN data ELSE DeepCopy(data, gen)
                      after  == [idx \in 1..FIXED_LENGTH |->
                                    IF DateLe(s.val, TIME_TUPLE[idx])
                                       /\ DateLe(TIME_TUPLE[idx], e.val)
                                    THEN ruleset
                                    ELSE target[idx]]
                  IN  IF inplace
                      THEN [ok |-> TRUE, self |-> after, ret |-> <<>>]
                      ELSE [ok |-> TRUE, self |-> data, ret |-> after]

\* Schedule(name): rulesets is None, so one new RuleSet("anonymous") object,
\* gen telling it from those of other constructor calls, fills the 365 days
Schedule_init(gen) == [i \in 1..FIXED_LENGTH |-> Ref("anonymous", gen)]

ScheduleCompactizeStepMutant(data, idx, compact_tuples) ==
    IF (Len(compact_tuples) = 0) \/ RuleSet_ne(Last(compact_tuples)[3], data[idx])
    THEN Append(compact_tuples,
                <<Date(TIME_TUPLE[idx]), Date(TIME_TUPLE[idx]), data[idx]>>)
    ELSE compact_tuples

\* one pass of the loop of Schedule.compactize, at day idx
ScheduleCompactizeStep(data, idx, compact_tuples) ==
    IF (Len(compact_tuples) = 0) \/ RuleSet_ne(Last(compact_tuples)[3], data[idx])
    THEN Append(compact_tuples,
                <<Date(TIME_TUPLE[idx]), Date(TIME_TUPLE[idx]), data[idx]>>)
    ELSE [compact_tuples EXCEPT ![Len(compact_tuples)] =
             <<Last(compact_tuples)[1], Date(TIME_TUPLE[idx]), Last(compact_tuples)[3]>>]

\* the passes lo..hi of that loop, in order, split in halves as in
\* CompactizeLoop
RECURSIVE ScheduleCompactizeLoop(_, _, _, _)
ScheduleCompactizeLoop(data, lo, hi, compact_tuples) ==
    IF lo > hi
    THEN compact_tuples
    ELSE IF lo = hi
         THEN ScheduleCompactizeStep(data, lo, compact_tuples)
         ELSE LET mid  == (lo + hi) \div 2
                  half == ScheduleCompactizeLoop(data, lo, mid, compact_tuples)
              IN  IF Len(half) > 0
                  THEN ScheduleCompactizeLoop(data, mid + 1, hi, half)
                  ELSE half

\* Schedule.compactize: the runs (start date, end date, RuleSet)
Schedule_compactize(data) == ScheduleCompactizeLoop(data, 1, Len(data), <<>>)

RECURSIVE FromCompactLoopMutant(_, _, _)
FromCompactLoopMutant(data, rulesets, k) ==
    IF k > Len(rulesets)
    THEN Ok(data)
    ELSE LET j == Len(rulesets) + 1 - k
             r == Schedule_apply(data, rulesets[j][3], rulesets[j][1],
                                 rulesets[j][2], TRUE, 0)
         IN  IF ~r.ok THEN Err(r.err) ELSE FromCompactLoopMutant(r.self, rulesets, k + 1)

\* the loop of Schedule.from_compact over the runs k..: apply in place, in
\* list order
RECURSIVE FromCompactLoop(_, _, _)
FromCompactLoop(data, rulesets, k) ==
    IF k > Len(rulesets)
    THEN Ok(data)
    ELSE LET r == Schedule_apply(data, rulesets[k][3], rulesets[k][1],
                                 rulesets[k][2], TRUE, 0)
         IN  IF ~r.ok THEN Err(r.err) ELSE FromCompactLoop(r.self, rulesets, k + 1)

\* Schedule.from_compact(name, rulesets): gen names the RuleSet("anonymous")
\* of the calendar the call constructs
Schedule_from_compact(rulesets, gen) == FromCompactLoop(Schedule_init(gen), rulesets, 1)

(***************************************************************************)
(* The calendar layer: one Schedule, changed by apply calls in place.      *)
(***************************************************************************)
\* the date tokens (start, end), as digits "MMDD", of the apply calls the
\* model makes: two overlapping ranges, the whole year, and a range whose
\* start lies after its end
Ranges ==
    {<<<<0, 1, 0, 1>>, <<0, 6, 3, 0>>>>,
     <<<<0, 3, 0, 1>>, <<0, 9, 3, 0>>>>,
     <<<<0, 1, 0, 1>>, <<1, 2, 3, 1>>>>,
     <<<<1, 0, 0, 1>>, <<0, 2, 2, 8>>>>}

InitCal ==
    /\ cal = Schedule_init(0)
    /\ log = <<>>
    /\ day = Idle
    /\ bp = <<>>
    /\ week = Idle
    /\ res = Idle

\* a run of the model makes its apply calls and then one call that reads the
\* calendar
Applying == res.op \in {"none", "apply"}

\* cal.apply(ruleset, start=start, end=end): in place
Apply(ruleset, start, end) ==
    LET r == Schedule_apply(cal, ruleset, Str(start), Str(end), TRUE, 0)
    IN  /\ Applying
        /\ Len(log) < MaxCalls
        /\ cal' = r.self
        /\ log' = Append(log, <<Str(start), Str(end), ruleset>>)
        /\ res' = [op |-> "apply", ok |-> r.ok]
        /\ UNCHANGED <<day, bp, week>>

\* cal.compactize()
ScheduleCompactize ==
    /\ Applying
    /\ res' = [op |-> "schedule_compactize", out |-> Schedule_compactize(cal)]
    /\ UNCHANGED <<day, bp, week, cal, log>>

\* Schedule.from_compact(name, runs) on the list of the calls made on cal
ScheduleFromCompact ==
    /\ Applying
    /\ res' = [op |-> "schedule_from_compact", out |-> Schedule_from_compact(log, 1)]
    /\ UNCHANGED <<day, bp, week, cal, log>>

\* Schedule.from_compact(name, cal.compactize())
ScheduleFromCompactOfCompactize ==
    /\ Applying
    /\ res' = [op |-> "schedule_from_compact_of_compactize",
               out |-> Schedule_from_compact(Schedule_compactize(cal), 1)]
    /\ UNCHANGED <<day, bp, week, cal, log>>

NextCal ==
    \/ \E r \in Patterns, se \in Ranges : Apply(r, se[1], se[2])
    \/ ScheduleCompactize
    \/ ScheduleFromCompact
    \/ ScheduleFromCompactOfCompactize

SpecCal == InitCal /\ [][NextCal]_vars

\* the number in 1..365 of the day a date (month, day) names
RECURSIVE DaysBefore(_)
DaysBefore(m) == IF m = 1 THEN 0 ELSE DaysBefore(m - 1) + MonthDays[m - 1]

DayNumber(md) == DaysBefore(md[1]) + md[2]

\* the day number a four-digit token "MMDD" names
TokenDay(t) == DayNumber(<<10 * t[1] + t[2], 10 * t[3] + t[4]>>)

\* the days of the inclusive range [start, end] of the k-th call of the log
DaysOfCall(k) == TokenDay(log[k][1].v)..TokenDay(log[k][2].v)

\* the days in the range of a call made after the k-th
DaysOfLaterCalls(k) == UNION {DaysOfCall(j) : j \in (k + 1)..Len(log)}

TokenOf(m1, m2, d1, d2) == Str(<<m1, m2, d1, d2>>)

\* C3: after any sequence of in-place apply calls every day holds the pattern
\* of the latest call whose inclusive range contains it, and the calendar's
\* original pattern if no range contains it; apply(A, "0101", "0630") then
\* apply(B, "0301", "0930") leaves A up to 2/28 (day 59), B from 3/1 (day 60)
\* to 9/30 (day 273) and the original pattern from 10/1 (day 274) on.
C3_LatestApplyWins ==
    /\ \A k \in 1..Len(log) :
          \A d \in DaysOfCall(k) \ DaysOfLaterCalls(k) : cal[d] = log[k][3]
    /\ \A d \in (1..FIXED_LENGTH) \ DaysOfLaterCalls(0) : cal[d] = Ref("anonymous", 0)
    /\ (log = << <<TokenOf(0, 1, 0, 1), TokenOf(0, 6, 3, 0), Ref("A", 0)>>,
                 <<TokenOf(0, 3, 0, 1), TokenOf(0, 9, 3, 0), Ref("B", 0)>> >>) =>
          /\ \A d \in 1..59 : cal[d] = Ref("A", 0)
          /\ \A d \in 60..273 : cal[d] = Ref("B", 0)
          /\ \A d \in 274..FIXED_LENGTH : cal[d] = Ref("anonymous", 0)

\* apply(A, "0101", "0630") and then apply(B, "0301", "0930") were made
C3_Witness ==
    /\ res.op = "apply"
    /\ log = << <<TokenOf(0, 1, 0, 1), TokenOf(0, 6, 3, 0), Ref("A", 0)>>,
                <<TokenOf(0, 3, 0, 1), TokenOf(0, 9, 3, 0), Ref("B", 0)>> >>

\* C4: compactize() returns runs in chronological order that start on 1/1,
\* end on 12/31, are contiguous and non-overlapping, and every day inside a
\* run holds that run's pattern; after apply(P, "0101", "1231") on a fresh
\* calendar it returns the one run (1/1, 12/31, P).
C4_RunsPartitionTheYear ==
    (res.op = "schedule_compactize") =>
        LET runs == res.out
        IN  /\ Len(runs) >= 1
            /\ runs[1][1] = Date(<<1, 1>>)
            /\ Last(runs)[2] = Date(<<12, 31>>)
            /\ \A k \in 1..Len(runs) :
                  /\ DayNumber(runs[k][1].v) <= DayNumber(runs[k][2].v)
                  /\ \A d \in DayNumber(runs[k][1].v)..DayNumber(runs[k][2].v) :
                        cal[d] = runs[k][3]
            /\ \A k \in 1..(Len(runs) - 1) :
                  DayNumber(runs[k + 1][1].v) = DayNumber(runs[k][2].v) + 1
            /\ \A P \in Patterns :
                  (log = << <<TokenOf(0, 1, 0, 1), TokenOf(1, 2, 3, 1), P>> >>) =>
                      runs = << <<Date(<<1, 1>>), Date(<<12, 31>>), P>> >>

\* compactize() has returned three runs
C4_Witness ==
    /\ res.op = "schedule_compactize"
    /\ Len(res.out) = 3

\* C5: compactize() merges adjacent days by the content of their patterns,
\* not by identity: no two adjacent runs carry patterns of equal content.
C5_MergesByContent ==
    (res.op = "schedule_compactize") =>
        \A k \in 1..(Len(res.out) - 1) :
            Content(res.out[k][3]) # Content(res.out[k + 1][3])

\* C6: from_compact(name, runs) gives the entries that apply, called once
\* per run in list order on a fresh calendar, gives (the days no run covers
\* hold the fresh calendar's own default pattern); and from_compact(name,
\* c.compactize()) holds on every day the pattern c holds.
C6_FromCompactAppliesInOrder ==
    /\ (res.op = "schedule_from_compact") =>
          /\ res.out.ok
          /\ \A d \in 1..FIXED_LENGTH :
                IF res.out.val[d] = Ref("anonymous", 1)
                THEN cal[d] = Ref("anonymous", 0)
                ELSE res.out.val[d] = cal[d]
    /\ (res.op = "schedule_from_compact_of_compactize") =>
          /\ res.out.ok
          /\ \A d \in 1..FIXED_LENGTH : res.out.val[d] = cal[d]

\* from_compact was given two overlapping runs of different patterns
C6_Witness ==
    /\ res.op = "schedule_from_compact"
    /\ Len(log) = 2
    /\ log[1][3] # log[2][3]
    /\ DaysOfCall(1) \cap DaysOfCall(2) # {}

(***************************************************************************)
(* RuleSet: the algebra lifted to the day categories.                      *)
(***************************************************************************)
\* RuleSet.to_dict(): its keys in insertion order
to_dict_keys ==
    <<"weekdays", "weekdends", "monday", "tuesday", "wednesday", "thursday",
      "friday", "saturday", "sunday", "holiday">>

\* RuleSet.to_dict(): the value under each key
to_dict(self) ==
    [k \in {to_dict_keys[i] : i \in 1..Len(to_dict_keys)} |->
        IF k = "weekdends" THEN self.weekends ELSE self[k]]

\* len(k) of the keys of to_dict()
StrLen ==
    [weekdays |-> 8, weekdends |-> 9, monday |-> 6, tuesday |-> 7,
     wednesday |-> 9, thursday |-> 8, friday |-> 6, saturday |-> 8,
     sunday |-> 6, holiday |-> 7]

\* for k, dayschedule in self.to_dict(): the iteration yields the keys, and
\* each key, a str, is unpacked into the two names; the characters are no
\* DaySchedule, so the comprehension keeps none of them
UnpackItems(self) ==
    IF \E i \in 1..Len(to_dict_keys) : StrLen[to_dict_keys[i]] # 2
    THEN Err("ValueError")
    ELSE Ok(NoKw)

\* self.to_dict.keys: an attribute of the bound method to_dict, which is not
\* called
MethodAttr(attr) ==
    IF attr \in {"__call__", "__func__", "__self__", "__name__", "__doc__"}
    THEN Ok(attr)
    ELSE Err("AttributeError")

\* an element of the two lists of defaults the lifted operations zip: a str
StrObj(s) == [type |-> "str", data |-> s]

\* the lists of defaults, in the order of the keys
DefaultNames ==
    <<"weekdays", "weekends",
      "weekdays", "weekdays", "weekdays", "weekdays", "weekdays",
      "weekends", "weekends", "weekends">>

\* the DaySchedule operation a lifted operation names, on two profiles (on
\* the first alone for invert)
DayOp(op, a, b) ==
    CASE op = "and"         -> DaySchedule_and(a, b)
      [] op = "or"          -> DaySchedule_or(a, b)
      [] op = "invert"      -> DaySchedule_invert(a)
      [] op = "element_min" -> DaySchedule_element_min(a, b)
      [] op = "element_max" -> DaySchedule_element_max(a, b)
      [] op = "add"         -> DaySchedule_add(a, b)
      [] op = "sub"         -> DaySchedule_sub(a, b)

\* the lambdas handed to __operate_dayschedule_with_default, applied to what
\* the zip yields: a str has neither the method nor the attributes they use
OnDay(operator, a, b) ==
    IF (a.type = "str") \/ (b.type = "str")
    THEN Err("AttributeError")
    ELSE DayOp(operator, a, b)

\* RuleSet.__operate_dayschedule_with_default
OperateWithDefault(operator, self_day, other_day, self_default, other_default) ==
    IF (self_day = None) /\ (other_day = None)
    THEN Ok(None)
    ELSE OnDay(operator,
               IF self_day = None THEN self_default ELSE self_day,
               IF other_day = None THEN other_default ELSE other_day)

\* return RuleSet(name, **{k: operate(...) for ... in zip(self.to_dict.keys(),
\* ...)}, type=self.type): what the lifted binary operations share
RuleSet_lifted(operator, self, other) ==
    LET keys == MethodAttr("keys")
    IN  IF ~keys.ok
        THEN keys
        ELSE LET n == Len(to_dict_keys)
                 item(i) == OperateWithDefault(operator,
                                to_dict(self)[to_dict_keys[i]],
                                to_dict(other)[to_dict_keys[i]],
                                StrObj(DefaultNames[i]), StrObj(DefaultNames[i]))
             IN  IF \E i \in 1..n : ~item(i).ok
                 THEN item(CHOOSE i \in 1..n :
                              ~item(i).ok /\ \A j \in 1..(i - 1) : item(j).ok)
                 ELSE RuleSet_init(
                        [k \in {to_dict_keys[i] : i \in 1..n} \cup {"type"} |->
                            IF k = "type"
                            THEN self.type
                            ELSE item(CHOOSE i \in 1..n : to_dict_keys[i] = k).val])

\* RuleSet.__mul__
RuleSet_mul(self, value) ==
    LET items == UnpackItems(self)
    IN  IF ~items.ok
        THEN items
        ELSE RuleSet_init([k \in {"type"} |-> self.type])

\* RuleSet.__add__
RuleSet_add(self, other) ==
    IF self.type # other.type
    THEN Err("TypeError")
    ELSE RuleSet_lifted("add", self, other)

\* RuleSet.__sub__
RuleSet_sub(self, other) ==
    IF self.type # other.type
    THEN Err("TypeError")
    ELSE LET neg == RuleSet_mul(other, -1)
         IN  IF ~neg.ok THEN neg ELSE RuleSet_add(self, neg.val)

\* RuleSet.__and__
RuleSet_and(self, other) ==
    IF (self.type # ONOFF) \/ (other.type # ONOFF)
    THEN Err("TypeError")
    ELSE RuleSet_lifted("and", self, other)

\* RuleSet.__or__
RuleSet_or(self, other) ==
    IF (self.type # ONOFF) \/ (other.type # ONOFF)
    THEN Err("TypeError")
    ELSE RuleSet_lifted("or", self, other)

\* RuleSet.__invert__
RuleSet_invert(self) ==
    IF self.type # ONOFF
    THEN Err("TypeError")
    ELSE LET items == UnpackItems(self)
         IN  IF ~items.ok
             THEN items
             ELSE RuleSet_init([k \in {"type"} |-> self.type])

\* RuleSet.element_min
RuleSet_element_min(self, other) ==
    RuleSet_lifted("element_min", self, other)

\* RuleSet.element_max
RuleSet_element_max(self, other) ==
    RuleSet_lifted("element_max", self, other)

(***************************************************************************)
(* The week layer: two RuleSets p and q, and one lifted operation on them. *)
(***************************************************************************)
\* the RuleSets of one type the model builds: two weekday profiles, one
\* weekend profile, monday and saturday each set or left unset
WeekPatterns(type) ==
    {RuleSet_init([weekdays |-> wd, weekends |-> StepDay(type, 0, 0),
                   monday |-> mo, saturday |-> sa]).val :
        wd \in {StepDay(type, 0, 1), StepDay(type, 1, 1)},
        mo \in {None, StepDay(type, 1, 0)},
        sa \in {None, StepDay(type, 1, 0)}}

InitWeek ==
    /\ \E tp \in {ONOFF, REAL}, tq \in {ONOFF, REAL} :
          \E p \in WeekPatterns(tp), q \in WeekPatterns(tq) :
              week = [p |-> p, q |-> q]
    /\ day = Idle
    /\ bp = <<>>
    /\ cal = <<>>
    /\ log = <<>>
    /\ res = Idle

\* a run of the model makes one call on the two RuleSets
\* week.p & week.q
WeekAnd ==
    /\ res = Idle
    /\ res' = [op |-> "and", out |-> RuleSet_and(week.p, week.q)]
    /\ UNCHANGED <<day, bp, week, cal, log>>

\* week.p | week.q
WeekOr ==
    /\ res = Idle
    /\ res' = [op |-> "or", out |-> RuleSet_or(week.p, week.q)]
    /\ UNCHANGED <<day, bp, week, cal, log>>

\* ~week.p
WeekInvert ==
    /\ res = Idle
    /\ res' = [op |-> "invert", out |-> RuleSet_invert(week.p)]
    /\ UNCHANGED <<day, bp, week, cal, log>>

\* week.p.element_min(week.q)
WeekMin ==
    /\ res = Idle
    /\ res' = [op |-> "element_min", out |-> RuleSet_element_min(week.p, week.q)]
    /\ UNCHANGED <<day, bp, week, cal, log>>

\* week.p.element_max(week.q)
WeekMax ==
    /\ res = Idle
    /\ res' = [op |-> "element_max", out |-> RuleSet_element_max(week.p, week.q)]
    /\ UNCHANGED <<day, bp, week, cal, log>>

\* week.p + week.q
WeekAdd ==
    /\ res = Idle
    /\ res' = [op |-> "add", out |-> RuleSet_add(week.p, week.q)]
    /\ UNCHANGED <<day, bp, week, cal, log>>

\* week.p - week.q
WeekSub ==
    /\ res = Idle
    /\ res' = [op |-> "sub", out |-> RuleSet_sub(week.p, week.q)]
    /\ UNCHANGED <<day, bp, week, cal, log>>

NextWeek ==
    \/ WeekAnd
    \/ WeekOr
    \/ WeekInvert
    \/ WeekMin
    \/ WeekMax
    \/ WeekAdd
    \/ WeekSub

SpecWeek == InitWeek /\ [][NextWeek]_vars

\* the day categories, and those that are per-day overrides of a default
Categories == RuleSetParams

WeekdayOverrides == {"monday", "tuesday", "wednesday", "thursday", "friday"}

WeekendOverrides == {"saturday", "sunday"}

\* the default a category inherits when it is unset
DefaultOf(w, c) == IF c \in WeekdayOverrides THEN w.weekdays ELSE w.weekends

\* the effective profile of a category: its own, or the inherited default
Effective(w, c) ==
    IF c \in {"weekdays", "weekends"}
    THEN w[c]
    ELSE IF w[c] # None THEN w[c] ELSE DefaultOf(w, c)

WeekOps == {"and", "or", "invert", "element_min", "element_max", "add", "sub"}

\* C7: for two RuleSets of one type, a lifted operation succeeds whenever the
\* operation succeeds on the effective profiles of every day category, and
\* the effective profile of each category of the result is the operation
\* applied to the effective profiles of that category of p and q (of p for
\* invert).
C7_LiftedOpsAgreePerCategory ==
    (/\ res.op \in WeekOps
     /\ week.p.type = week.q.type
     /\ \A c \in Categories :
           DayOp(res.op, Effective(week.p, c), Effective(week.q, c)).ok)
    => /\ res.out.ok
       /\ \A c \in Categories :
             Effective(res.out.val, c)
               = DayOp(res.op, Effective(week.p, c), Effective(week.q, c)).val

\* C8: in the result of a lifted binary operation a per-day override is unset
\* exactly when it is unset in both operands, and where one operand has it
\* unset that operand contributes its own default profile (weekdays for
\* monday..friday, weekends for saturday and sunday) to the operation.
C8_UnsetOnlyWhereBothUnset ==
    (/\ res.op \in WeekOps \ {"invert"}
     /\ week.p.type = week.q.type
     /\ \A c \in Categories :
           DayOp(res.op, Effective(week.p, c), Effective(week.q, c)).ok)
    => /\ res.out.ok
       /\ \A c \in WeekdayOverrides \cup WeekendOverrides :
             /\ (res.out.val[c] = None)
                  <=> ((week.p[c] = None) /\ (week.q[c] = None))
             /\ (res.out.val[c] # None)
                  => res.out.val[c]
                       = DayOp(res.op,
                               IF week.p[c] = None THEN DefaultOf(week.p, c)
                                                   ELSE week.p[c],
                               IF week.q[c] = None THEN DefaultOf(week.q, c)
                                                   ELSE week.q[c]).val

(***************************************************************************)
(* The slot layer: one DaySchedule, constructed from a list of values and  *)
(* then written slot by slot, with values inside and outside each domain.  *)
(***************************************************************************)
\* the values the model constructs with and writes
SlotItems == {-51, -50, 0, 1, 2, 75, 200, 201, 250}

\* the slots (1-based) the model constructs and writes: the first and the last
SlotIndexes == {1, fixed_length}

InitSlot ==
    /\ day = Idle
    /\ bp = <<>>
    /\ week = Idle
    /\ cal = <<>>
    /\ log = <<>>
    /\ res = Idle

\* a = DaySchedule("a", value, type=type), value all 0 but for item at idx
Construct(type, idx, item) ==
    LET r == DaySchedule_init([Zeros EXCEPT ![idx] = item], [type |-> type])
    IN  /\ day = Idle
        /\ day' = IF r.ok THEN [a |-> r.val] ELSE day
        /\ res' = [op |-> "init", type |-> type, idx |-> idx, item |-> item,
                   out |-> r]
        /\ UNCHANGED <<bp, week, cal, log>>

\* a[idx] = item
Write(idx, item) ==
    LET r == DaySchedule_setitem(day.a, idx, item)
    IN  /\ day # Idle
        /\ day' = IF r.ok THEN [a |-> r.val] ELSE day
        /\ res' = [op |-> "write", idx |-> idx, item |-> item,
                   before |-> day.a,
                   out |-> IF r.ok THEN Ok("None") ELSE r]
        /\ UNCHANGED <<bp, week, cal, log>>

NextSlot ==
    \/ \E type \in ScheduleType, idx \in SlotIndexes, item \in SlotItems :
          Construct(type, idx, item)
    \/ \E idx \in SlotIndexes, item \in SlotItems : Write(idx, item)

SpecSlot == InitSlot /\ [][NextSlot]_vars

\* the bounds of the domains as the specification states them
InDomain(type, item) ==
    CASE type = TEMPERATURE -> (-50 <= item) /\ (item <= 200)
      [] type = ONOFF       -> (item = 0) \/ (item = 1)
      [] type = REAL        -> TRUE

\* C11: constructing a DaySchedule with a value outside its domain's bounds,
\* or writing one into a slot, raises ValueError, and the rejected write
\* leaves every slot as it was; a value inside the bounds (the bounds -50 and
\* 200 included) is accepted and stored, and the REAL domain accepts any value.
C11_OutOfDomainRejected ==
    /\ res.op = "init" =>
          IF InDomain(res.type, res.item)
          THEN /\ res.out.ok
               /\ res.out.val.type = res.type
               /\ res.out.val.data = [Zeros EXCEPT ![res.idx] = res.item]
          ELSE /\ ~res.out.ok
               /\ res.out.err = "ValueError"
               /\ day = Idle
    /\ res.op = "write" =>
          IF InDomain(res.before.type, res.item)
          THEN /\ res.out.ok
               /\ day.a.type = res.before.type
               /\ day.a.data = [res.before.data EXCEPT ![res.idx] = res.item]
          ELSE /\ ~res.out.ok
               /\ res.out.err = "ValueError"
               /\ day.a = res.before

\* 250 was written into a temperature profile that holds 200 in the other slot
C11_Witness ==
    /\ res.op = "write"
    /\ res.before.type = TEMPERATURE
    /\ res.item = 250
    /\ \E i \in SlotIndexes : res.before.data[i] = 200

(***************************************************************************)
(* Floats.  item / value is Python's true division and gives a float also  *)
(* for two ints; a float is modelled by the fraction it stands for, in     *)
(* lowest terms with a positive denominator, so that equal numbers are     *)
(* equal values of the model (as 1 == 1.0 in Python).                      *)
(***************************************************************************)
Abs(n) == IF n < 0 THEN -n ELSE n

RECURSIVE Gcd(_, _)
Gcd(x, y) == IF y = 0 THEN x ELSE Gcd(y, x % y)

\* the number n / d, for d # 0
Frac(n, d) ==
    LET g == Gcd(Abs(n), Abs(d))
        s == IF d < 0 THEN -1 ELSE 1
    IN  [n |-> (s * n) \div g, d |-> (s * d) \div g]

\* float(n)
Float(n) == Frac(n, 1)

FracLe(x, y) == x.n * y.d <= y.n * x.d

\* x / y, for y # 0
FracDiv(x, y) == Frac(x.n * y.d, x.d * y.n)

\* max(data) of a list of floats
FracMax(data) ==
    LET range == {data[i] : i \in 1..Len(data)}
    IN  CHOOSE x \in range : \A y \in range : FracLe(y, x)

\* the data of a profile as floats
AsFloat(self) == [self EXCEPT !.data = [i \in 1..Len(self.data) |-> Float(self.data[i])]]

\* the domain check of DaySchedule.__setitem__ on a float item
FloatAccepted(type, item) ==
    CASE type = TEMPERATURE -> /\ FracLe(Float(MIN_TEMPERATURE), item)
                               /\ FracLe(item, Float(MAX_TEMPERATURE))
      [] type = ONOFF       -> item \in {Float(0), Float(1)}
      [] type = REAL        -> TRUE

\* DaySchedule(name, value, **kwargs) for a list of floats
DaySchedule_init_float(value, kwargs) ==
    IF ~(DOMAIN kwargs \subseteq {"type", "unit"})
    THEN Err("TypeError")
    ELSE LET type == IF "type" \in DOMAIN kwargs THEN kwargs["type"] ELSE REAL
         IN  IF Len(value) # fixed_length
             THEN Err("ValueError")
             ELSE IF \E i \in 1..fixed_length : ~FloatAccepted(type, value[i])
                  THEN Err("ValueError")
                  ELSE Ok([type |-> type, data |-> value])

\* DaySchedule.__truediv__, on a profile of floats and a float
DaySchedule_truediv(self, value) ==
    IF value.n = 0
    THEN Err("ZeroDivisionError")
    ELSE DaySchedule_init_float(
            [i \in 1..fixed_length |-> FracDiv(self.data[i], value)],
            [type |-> self.type])

\* normalize_by_max without the guard on a maximum of 0
NormalizeMutant(self, inplace) ==
    LET scaler == FracMax(self.data)
    IN  IF inplace
        THEN [ok |-> TRUE, val |-> None,
              self |-> [self EXCEPT !.data =
                          [i \in 1..fixed_length |-> FracDiv(self.data[i], scaler)]]]
        ELSE LET r == DaySchedule_truediv(self, scaler)
             IN  IF r.ok
                 THEN [ok |-> TRUE, val |-> r.val, self |-> self]
                 ELSE [ok |-> FALSE, err |-> r.err, self |-> self]

\* DaySchedule.normalize_by_max(inplace), on a profile of floats: what the
\* call returns or raises (val) and the object afterwards (self)
DaySchedule_normalize_by_max(self, inplace) ==
    LET scaler == IF FracMax(self.data) = Float(0) THEN Float(1) ELSE FracMax(self.data)
    IN  IF inplace
        THEN [ok |-> TRUE, val |-> None,
              self |-> [self EXCEPT !.data =
                          [i \in 1..fixed_length |-> FracDiv(self.data[i], scaler)]]]
        ELSE LET r == DaySchedule_truediv(self, scaler)
             IN  IF r.ok
                 THEN [ok |-> TRUE, val |-> r.val, self |-> self]
                 ELSE [ok |-> FALSE, err |-> r.err, self |-> self]

(***************************************************************************)
(* The arithmetic layer: two DaySchedule objects of any two types and one  *)
(* operation of the class on them.                                         *)
(***************************************************************************)
\* the slot values of the profiles of each type
ArithValues(type) ==
    CASE type = TEMPERATURE -> {-50, 150}
      [] type = ONOFF       -> {0, 1}
      [] type = REAL        -> {0, 3}

\* the profiles of a type: one value up to 08:00 and one after
ArithProfiles(type) ==
    {StepDay(type, v1, v2) : v1 \in ArithValues(type), v2 \in ArithValues(type)}

\* the scalars of x * k and x / k
Scalars == {-1, 0, 1, 2}

InitArith ==
    /\ \E ta \in ScheduleType, tb \in ScheduleType :
          \E pa \in ArithProfiles(ta), pb \in ArithProfiles(tb) :
              day = [a |-> pa, b |-> pb]
    /\ bp = <<>>
    /\ week = Idle
    /\ cal = <<>>
    /\ log = <<>>
    /\ res = Idle

\* x + y
Add(x, y) ==
    /\ Building
    /\ res' = [op |-> "add", lhs |-> x, rhs |-> y,
               out |-> DaySchedule_add(day[x], day[y])]
    /\ UNCHANGED <<day, bp, week, cal, log>>

\* x - y
Sub(x, y) ==
    /\ Building
    /\ res' = [op |-> "sub", lhs |-> x, rhs |-> y,
               out |-> DaySchedule_sub(day[x], day[y])]
    /\ UNCHANGED <<day, bp, week, cal, log>>

\* x * k
Mul(x, k) ==
    /\ Building
    /\ res' = [op |-> "mul", lhs |-> x, k |-> k,
               out |-> DaySchedule_mul(day[x], k)]
    /\ UNCHANGED <<day, bp, week, cal, log>>

\* x / k
TrueDiv(x, k) ==
    /\ Building
    /\ res' = [op |-> "truediv", lhs |-> x, k |-> k,
               out |-> DaySchedule_truediv(AsFloat(day[x]), Float(k))]
    /\ UNCHANGED <<day, bp, week, cal, log>>

\* x.element_min(y)
ElementMin(x, y) ==
    /\ Building
    /\ res' = [op |-> "element_min", lhs |-> x, rhs |-> y,
               out |-> DaySchedule_element_min(day[x], day[y])]
    /\ UNCHANGED <<day, bp, week, cal, log>>

\* x.element_max(y)
ElementMax(x, y) ==
    /\ Building
    /\ res' = [op |-> "element_max", lhs |-> x, rhs |-> y,
               out |-> DaySchedule_element_max(day[x], day[y])]
    /\ UNCHANGED <<day, bp, week, cal, log>>

NextArith ==
    \/ \E xy \in OperandPairs : Add(xy[1], xy[2])
    \/ \E xy \in OperandPairs : Sub(xy[1], xy[2])
    \/ \E x \in Names, k \in Scalars : Mul(x, k)
    \/ \E x \in Names, k \in Scalars : TrueDiv(x, k)
    \/ \E xy \in OperandPairs : ElementMin(xy[1], xy[2])
    \/ \E xy \in OperandPairs : ElementMax(xy[1], xy[2])
    \/ \E xy \in OperandPairs : And(xy[1], xy[2])
    \/ \E xy \in OperandPairs : Or(xy[1], xy[2])
    \/ \E x \in Names : Invert(x)

SpecArith == InitArith /\ [][NextArith]_vars

\* C12: add, subtract, element_min and element_max of two profiles of
\* different types raise TypeError and return no profile, whatever the slots
\* hold.
C12_MixedTypesRejected ==
    (/\ res.op \in {"add", "sub", "element_min", "element_max"}
     /\ day[res.lhs].type # day[res.rhs].type)
    => /\ ~res.out.ok
       /\ res.out.err = "TypeError"

\* C13: add, subtract, multiplication and division by a scalar raise
\* TypeError on ONOFF profiles, whatever the slots and the scalar are, and
\* and, or, invert raise TypeError when an operand is not ONOFF.
C13_UnsupportedRejected ==
    /\ (/\ res.op \in {"add", "sub"}
        /\ day[res.lhs].type = ONOFF
        /\ day[res.rhs].type = ONOFF)
       => (~res.out.ok /\ res.out.err = "TypeError")
    /\ (res.op \in {"mul", "truediv"} /\ day[res.lhs].type = ONOFF)
       => (~res.out.ok /\ res.out.err = "TypeError")
    /\ (/\ res.op \in {"and", "or"}
        /\ (day[res.lhs].type # ONOFF \/ day[res.rhs].type # ONOFF))
       => (~res.out.ok /\ res.out.err = "TypeError")
    /\ (res.op = "invert" /\ day[res.lhs].type # ONOFF)
       => (~res.out.ok /\ res.out.err = "TypeError")

\* C29: for two TEMPERATURE profiles whose slot-wise differences all lie
\* within [MIN_TEMPERATURE, MAX_TEMPERATURE], a - b succeeds and returns the
\* TEMPERATURE profile of the differences, also when the negation of a slot
\* of b lies outside the bounds.
C29_SubtractByDifference ==
    (/\ res.op = "sub"
     /\ day[res.lhs].type = TEMPERATURE
     /\ day[res.rhs].type = TEMPERATURE
     /\ \A i \in 1..fixed_length :
           /\ MIN_TEMPERATURE <= day[res.lhs].data[i] - day[res.rhs].data[i]
           /\ day[res.lhs].data[i] - day[res.rhs].data[i] <= MAX_TEMPERATURE)
    => /\ res.out.ok
       /\ res.out.val.type = TEMPERATURE
       /\ \A i \in 1..fixed_length :
             res.out.val.data[i] = day[res.lhs].data[i] - day[res.rhs].data[i]

(***************************************************************************)
(* The normalisation layer: one DaySchedule of float slots and one call of *)
(* normalize_by_max on it.                                                 *)
(***************************************************************************)
\* the slot values of the profiles of each type
NormValues(type) ==
    CASE type = TEMPERATURE -> {Float(-50), Float(0), Frac(1, 2), Float(200)}
      [] type = ONOFF       -> {Float(0), Float(1)}
      [] type = REAL        -> {Float(-3), Float(0), Frac(1, 2), Float(4)}

\* the profiles of a type: one value up to 08:00, one up to 18:00, one after
NormProfiles(type) ==
    {DaySchedule_init_float(
        [i \in 1..fixed_length |-> IF i <= 48 THEN v1 ELSE IF i <= 108 THEN v2 ELSE v3],
        [type |-> type]).val :
        v1 \in NormValues(type), v2 \in NormValues(type), v3 \in NormValues(type)}

InitNorm ==
    /\ \E type \in ScheduleType : \E p \in NormProfiles(type) : day = [a |-> p]
    /\ bp = <<>>
    /\ week = Idle
    /\ cal = <<>>
    /\ log = <<>>
    /\ res = Idle

\* a.normalize_by_max()
Normalize ==
    LET r == DaySchedule_normalize_by_max(day.a, FALSE)
    IN  /\ res = Idle
        /\ day' = [a |-> r.self]
        /\ res' = [op |-> "normalize_by_max", before |-> day.a,
                   out |-> IF r.ok THEN Ok(r.val) ELSE Err(r.err)]
        /\ UNCHANGED <<bp, week, cal, log>>

\* a.normalize_by_max(inplace=True)
NormalizeInplace ==
    LET r == DaySchedule_normalize_by_max(day.a, TRUE)
    IN  /\ res = Idle
        /\ day' = [a |-> r.self]
        /\ res' = [op |-> "normalize_by_max_inplace", before |-> day.a,
                   out |-> IF r.ok THEN Ok(r.val) ELSE Err(r.err)]
        /\ UNCHANGED <<bp, week, cal, log>>

NextNorm ==
    \/ Normalize
    \/ NormalizeInplace

SpecNorm == InitNorm /\ [][NextNorm]_vars

\* the largest of the slot values
MaxSlot(data) ==
    CHOOSE x \in {data[i] : i \in 1..Len(data)} :
        \A i \in 1..Len(data) : FracLe(data[i], x)

\* each slot divided by the largest slot, or the slots as they are when the
\* largest is 0
Normalized(data) ==
    IF MaxSlot(data) = Float(0)
    THEN data
    ELSE [i \in 1..Len(data) |-> FracDiv(data[i], MaxSlot(data))]

\* the bounds of the domains as the specification states them, on floats
InDomainFloat(type, x) ==
    CASE type = TEMPERATURE -> FracLe(Float(-50), x) /\ FracLe(x, Float(200))
      [] type = ONOFF       -> (x = Float(0)) \/ (x = Float(1))
      [] type = REAL        -> TRUE

\* C17 as stated: normalize_by_max returns a profile in which every slot is
\* the original slot divided by the profile's largest slot, and the same
\* slots when the largest slot is 0.
C17_NormalizeDividesByMax ==
    (res.op = "normalize_by_max") =>
        /\ res.out.ok
        /\ res.out.val.data = Normalized(res.before.data)

\* C17 as amended: normalize_by_max() returns a new profile of the same type
\* whose slots are the original slots divided by the largest slot (the same
\* slots when the largest is 0, without a division by zero) whenever every
\* quotient is within the bounds of the type, and raises ValueError,
\* returning no profile, when a quotient is outside them; the profile it was
\* called on is unchanged.
C17_NormalizeDividesByMaxWithinDomain ==
    (res.op = "normalize_by_max") =>
        /\ day.a = res.before
        /\ IF \A i \in 1..fixed_length :
                  InDomainFloat(res.before.type, Normalized(res.before.data)[i])
           THEN /\ res.out.ok
                /\ res.out.val.type = res.before.type
                /\ res.out.val.data = Normalized(res.before.data)
           ELSE /\ ~res.out.ok
                /\ res.out.err = "ValueError"

\* a profile whose largest slot is 0 and that holds another value was
\* normalised
C17_Witness ==
    /\ res.op = "normalize_by_max"
    /\ res.out.ok
    /\ MaxSlot(res.before.data) = Float(0)
    /\ \E i \in 1..fixed_length : res.before.data[i] # Float(0)

(***************************************************************************)
(* The container layer.  DaySchedule and Schedule are UserList subclasses: *)
(* the list methods they do not override are those of UserList, which act  *)
(* on self.data.                                                           *)
(***************************************************************************)
\* UserList.remove(item): self.data.remove(item)
UserList_remove(data, item) ==
    IF \E i \in 1..Len(data) : data[i] = item
    THEN LET i == CHOOSE i \in 1..Len(data) :
                     data[i] = item /\ \A j \in 1..(i - 1) : data[j] # item
         IN  Ok(SubSeq(data, 1, i - 1) \o SubSeq(data, i + 1, Len(data)))
    ELSE Err("ValueError")

\* UserList.__iadd__(other): self.data += list(other)
UserList_iadd(data, other) == Ok(data \o other)

\* UserList.__imul__(n): self.data *= n
UserList_imul(data, n) ==
    Ok([i \in 1..(IF n > 0 THEN n * Len(data) ELSE 0) |->
            data[((i - 1) % Len(data)) + 1]])

\* UserList.__setitem__(slice(lo, hi), items): self.data[lo:hi] = items, for
\* 0 <= lo <= hi <= len(self.data)
UserList_setslice(data, lo, hi, items) ==
    Ok(SubSeq(data, 1, lo) \o items \o SubSeq(data, hi + 1, Len(data)))

\* the methods DaySchedule and Schedule override with a raise AttributeError
ProhibitedMethods == {"__delitem__", "append", "extend", "pop", "clear", "insert"}

\* the calls of the container layer: a method and its arguments
ContainerCalls ==
    {[method |-> mth] : mth \in ProhibitedMethods}
      \cup {[method |-> "remove", item |-> 0],
            [method |-> "remove", item |-> 7],
            [method |-> "__iadd__", other |-> <<0>>],
            [method |-> "__imul__", n |-> 0],
            [method |-> "__imul__", n |-> 2],
            [method |-> "__setitem__", lo |-> 0, hi |-> 2, items |-> <<0>>],
            [method |-> "__setitem__", lo |-> 0, hi |-> 0, items |-> <<0>>]}

\* a list method called on the DaySchedule self: the new self.data, or the
\* exception.  __setitem__ with a slice runs the domain check on the list
\* assigned: MIN_TEMPERATURE <= [..] raises TypeError, [..] not in [0, 1] is
\* true, and the REAL case passes the slice on to UserList
DaySchedule_call(self, call) ==
    CASE call.method \in ProhibitedMethods -> Err("AttributeError")
      [] call.method = "remove"      -> UserList_remove(self.data, call.item)
      [] call.method = "__iadd__"    -> UserList_iadd(self.data, call.other)
      [] call.method = "__imul__"    -> UserList_imul(self.data, call.n)
      [] call.method = "__setitem__" ->
            CASE self.type = TEMPERATURE -> Err("TypeError")
              [] self.type = ONOFF       -> Err("ValueError")
              [] self.type = REAL        ->
                    UserList_setslice(self.data, call.lo, call.hi, call.items)

\* a list method called on the Schedule whose data list is data; Schedule
\* does not override __setitem__
Schedule_call(data, call) ==
    CASE call.method \in ProhibitedMethods -> Err("AttributeError")
      [] call.method = "remove"      ->
            \* item 0 stands for the entry of the first day, any other item
            \* for a RuleSet the list does not hold
            UserList_remove(data, IF call.item = 0 THEN data[1] ELSE Ref("B", 0))
      [] call.method = "__iadd__"    -> UserList_iadd(data, <<Ref("B", 0)>>)
      [] call.method = "__imul__"    -> UserList_imul(data, call.n)
      [] call.method = "__setitem__" ->
            UserList_setslice(data, call.lo, call.hi, <<Ref("B", 0)>>)

\* the layer holds either one DaySchedule or one Schedule
InitList ==
    /\ \/ /\ \E type \in ScheduleType : \E p \in ArithProfiles(type) : day = [a |-> p]
          /\ cal = <<>>
       \/ /\ day = Idle
          /\ cal = Schedule_init(0)
    /\ bp = <<>>
    /\ week = Idle
    /\ log = <<>>
    /\ res = Idle

\* a list method called on the DaySchedule a, while it has its fixed length
DayCall(call) ==
    LET r == DaySchedule_call(day.a, call)
    IN  /\ day # Idle
        /\ Len(day.a.data) = fixed_length
        /\ day' = IF r.ok THEN [a |-> [day.a EXCEPT !.data = r.val]] ELSE day
        /\ res' = [op |-> "list_call", call |-> call, ok |-> r.ok]
        /\ UNCHANGED <<bp, week, cal, log>>

\* a list method called on the Schedule, while it has its fixed length
CalCall(call) ==
    LET r == Schedule_call(cal, call)
    IN  /\ day = Idle
        /\ Len(cal) = FIXED_LENGTH
        /\ cal' = IF r.ok THEN r.val ELSE cal
        /\ res' = [op |-> "list_call", call |-> call, ok |-> r.ok]
        /\ UNCHANGED <<day, bp, week, log>>

NextList ==
    \/ \E call \in ContainerCalls : DayCall(call)
    \/ \E call \in ContainerCalls : CalCall(call)

SpecList == InitList /\ [][NextList]_vars

\* C18: whatever list methods are called on it, a DaySchedule keeps exactly
\* 144 slots and a Schedule exactly 365 entries: each call that would change
\* the length is rejected.
C18_FixedLength ==
    /\ (day # Idle) => (Len(day.a.data) = fixed_length)
    /\ (day = Idle) => (Len(cal) = FIXED_LENGTH)

(***************************************************************************)
(* The pattern layer: one RuleSet, constructed from keyword arguments and  *)
(* then assigned day-category profiles through its property setters.       *)
(***************************************************************************)
\* validate_type(DaySchedule), the decorator of the setters: the value
\* assigned must be a DaySchedule
validate_type(value) ==
    IF value.type \in ScheduleType THEN Ok(value) ELSE Err("TypeError")

\* the property setters of RuleSet: self.<category> = value
RuleSet_set(self, category, value) ==
    LET v == validate_type(value)
    IN  IF ~v.ok THEN v ELSE Ok([self EXCEPT ![category] = value])

\* the profiles handed to RuleSet: one of each type
PatternProfiles == {StepDay(type, 0, 1) : type \in ScheduleType}

\* the keyword arguments of the constructor calls: any of weekdays, weekends,
\* monday and holiday, each with one of the profiles
PatternKwargs ==
    UNION {[keys -> PatternProfiles] :
              keys \in SUBSET {"weekdays", "weekends", "monday", "holiday"}}

InitPattern ==
    /\ week = Idle
    /\ day = Idle
    /\ bp = <<>>
    /\ cal = <<>>
    /\ log = <<>>
    /\ res = Idle

\* p = RuleSet("p", **kwargs)
NewRuleSet(kwargs) ==
    LET r == RuleSet_init(kwargs)
    IN  /\ week = Idle
        /\ week' = IF r.ok THEN [p |-> r.val] ELSE week
        /\ res' = [op |-> "new_ruleset", kwargs |-> kwargs,
                   out |-> IF r.ok THEN Ok("RuleSet") ELSE r]
        /\ UNCHANGED <<day, bp, cal, log>>

\* p.<category> = value
Assign(category, value) ==
    LET r == RuleSet_set(week.p, category, value)
    IN  /\ week # Idle
        /\ week' = IF r.ok THEN [p |-> r.val] ELSE week
        /\ res' = [op |-> "assign", category |-> category,
                   out |-> IF r.ok THEN Ok("None") ELSE r]
        /\ UNCHANGED <<day, bp, cal, log>>

NextPattern ==
    \/ \E kwargs \in PatternKwargs : NewRuleSet(kwargs)
    \/ \E category \in {"weekdays", "monday", "saturday"}, value \in PatternProfiles :
          Assign(category, value)

SpecPattern == InitPattern /\ [][NextPattern]_vars

\* C19: all profiles present in a RuleSet have one type.  The constructor
\* raises ValueError when weekends or an override is of another type than
\* weekdays, and no later operation, the assignment of a day-category profile
\* included, brings in a profile of another type.
C19_OneTypePerRuleSet ==
    /\ (res.op = "new_ruleset"
          /\ \E k, l \in DOMAIN res.kwargs :
                res.kwargs[k].type # res.kwargs[l].type)
       => (~res.out.ok /\ res.out.err = "ValueError")
    /\ (week # Idle)
       => \A c \in RuleSetParams :
             (week.p[c] # None) => (week.p[c].type = week.p["weekdays"].type)

\* C20: a RuleSet constructed without weekdays and without weekends has both
\* set to a profile of 144 zeros of type ONOFF, and the RuleSet's type is
\* ONOFF.
C20_DefaultsAreBinaryZeros ==
    (/\ res.op = "new_ruleset"
     /\ DOMAIN res.kwargs = {})
    => /\ res.out.ok
       /\ week.p.type = ONOFF
       /\ week.p["weekdays"] = [type |-> ONOFF, data |-> Zeros]
       /\ week.p["weekends"] = [type |-> ONOFF, data |-> Zeros]

(***************************************************************************)
(* The object layer: Schedule objects and the list objects they hold.      *)
(* self.data = rulesets stores a reference, so cal.lists maps the identity *)
(* of each list object to its entries and a Schedule holds the identity of *)
(* its list.                                                               *)
(***************************************************************************)
\* the content of each pattern of the model, computed once
Contents ==
    [name \in {"anonymous", "A", "A2", "B", "O"} |-> Content(Ref(name, 0))]

\* ruleset.type
RuleSetType(ref) == Contents[ref.name].type

\* Schedule(name, rulesets) for a list with the entries rulesets: the checks
\* of the constructor, and the type the object declares
Schedule_new(rulesets) ==
    IF Len(rulesets) # FIXED_LENGTH
    THEN Err("ValueError")
    ELSE IF \E i \in 1..Len(rulesets) : rulesets[i] = None
         THEN Err("TypeError")
         ELSE IF \E i \in 1..Len(rulesets) :
                    RuleSetType(rulesets[i]) # RuleSetType(rulesets[1])
              THEN Err("ValueError")
              ELSE Ok(RuleSetType(rulesets[1]))

\* no Schedule object under a name yet
NoSchedule == [type |-> "None", data |-> "None"]

\* the names of the Schedule objects of the layer
ScheduleNames == {"s1", "s2"}

\* the lists a caller hands to the constructor: the list object L of the
\* heap, and lists the constructor rejects
CallerLists ==
    [L     |-> [i \in 1..FIXED_LENGTH |-> Ref("A", 0)],
     short |-> [i \in 1..(FIXED_LENGTH - 1) |-> Ref("A", 0)],
     long  |-> [i \in 1..(FIXED_LENGTH + 1) |-> Ref("A", 0)],
     mixed |-> [i \in 1..FIXED_LENGTH |-> IF i = 60 THEN Ref("O", 0) ELSE Ref("A", 0)],
     none  |-> [i \in 1..FIXED_LENGTH |-> IF i = 60 THEN None ELSE Ref("A", 0)]]

\* the range and the patterns of the apply calls of the layer
ObjectRanges ==
    {<<<<0, 3, 0, 1>>, <<0, 6, 3, 0>>>>}

ObjectPatterns == {Ref("B", 0), Ref("O", 0)}

InitObject ==
    /\ cal = [lists  |-> [id \in {"L"} |-> CallerLists.L],
              scheds |-> [n \in ScheduleNames |-> NoSchedule],
              calls  |-> 0]
    /\ log = <<>>
    /\ day = Idle
    /\ bp = <<>>
    /\ week = Idle
    /\ res = Idle

\* the list object a Schedule holds, as it is now
ListOf(c, n) == c.lists[c.scheds[n].data]

\* n = Schedule(n, arg), arg one of the caller's lists
NewSchedule(n, arg) ==
    LET r == Schedule_new(IF arg = "L" THEN cal.lists["L"] ELSE CallerLists[arg])
    IN  /\ cal.scheds[n] = NoSchedule
        /\ cal' = IF r.ok
                  THEN [cal EXCEPT !.scheds[n] = [type |-> r.val, data |-> arg]]
                  ELSE cal
        /\ res' = [op |-> "new", name |-> n, arg |-> arg,
                   out |-> IF r.ok THEN Ok("Schedule") ELSE r]
        /\ UNCHANGED <<day, bp, week, log>>

\* n = Schedule(n): the constructor makes the list itself
NewDefaultSchedule(n) ==
    LET made == Schedule_init(IF n = "s1" THEN 1 ELSE 2)
        r    == Schedule_new(made)
    IN  /\ cal.scheds[n] = NoSchedule
        /\ cal' = [cal EXCEPT !.scheds[n] = [type |-> r.val, data |-> n],
                              !.lists = [id \in DOMAIN cal.lists \cup {n} |->
                                            IF id = n THEN made ELSE cal.lists[id]]]
        /\ res' = [op |-> "new", name |-> n, arg |-> "default", out |-> Ok("Schedule")]
        /\ UNCHANGED <<day, bp, week, log>>

\* n.apply(ruleset, start=start, end=end, inplace=True)
ApplyInPlace(n, ruleset, start, end) ==
    LET r == Schedule_apply(ListOf(cal, n), ruleset, Str(start), Str(end), TRUE, 0)
    IN  /\ cal.scheds[n] # NoSchedule
        /\ cal.calls < MaxCalls
        /\ cal' = [cal EXCEPT !.lists[cal.scheds[n].data] = r.self,
                              !.calls = cal.calls + 1]
        /\ res' = [op |-> "apply_inplace", name |-> n, ruleset |-> ruleset,
                   start |-> start, end |-> end, before |-> cal.lists,
                   out |-> IF r.ok THEN Ok(None) ELSE Err(r.err)]
        /\ UNCHANGED <<day, bp, week, log>>

\* n.apply(ruleset, start=start, end=end, inplace=False): the calendar the
\* call returns is not kept
ApplyCopy(n, ruleset, start, end) ==
    LET r == Schedule_apply(ListOf(cal, n), ruleset, Str(start), Str(end), FALSE, 3)
    IN  /\ cal.scheds[n] # NoSchedule
        /\ cal' = [cal EXCEPT !.lists[cal.scheds[n].data] = r.self]
        /\ res' = [op |-> "apply_copy", name |-> n, ruleset |-> ruleset,
                   start |-> start, end |-> end, before |-> cal.lists,
                   out |-> IF r.ok
                           THEN Ok([type |-> cal.scheds[n].type, data |-> r.ret])
                           ELSE Err(r.err)]
        /\ UNCHANGED <<day, bp, week, log>>

\* Schedule.from_compact(name, [(start, end, ruleset)]): the type the new
\* calendar declares is that of the RuleSet("anonymous") of cls(name)
ObjectFromCompact(ruleset, start, end) ==
    LET made == Schedule_new(Schedule_init(3))
        r    == Schedule_from_compact(<<<<Str(start), Str(end), ruleset>>>>, 3)
    IN  /\ res' = [op |-> "from_compact",
                   out |-> IF r.ok
                           THEN Ok([type |-> made.val, data |-> r.val])
                           ELSE r]
        /\ UNCHANGED <<day, bp, week, cal, log>>

NextObject ==
    \/ \E n \in ScheduleNames, arg \in DOMAIN CallerLists : NewSchedule(n, arg)
    \/ \E n \in ScheduleNames : NewDefaultSchedule(n)
    \/ \E n \in ScheduleNames, r \in ObjectPatterns, se \in ObjectRanges :
          ApplyInPlace(n, r, se[1], se[2])
    \/ \E n \in ScheduleNames, r \in ObjectPatterns, se \in ObjectRanges :
          ApplyCopy(n, r, se[1], se[2])
    \/ \E r \in ObjectPatterns, se \in ObjectRanges : ObjectFromCompact(r, se[1], se[2])

SpecObject == InitObject /\ [][NextObject]_vars

\* the list a constructor call was given
PassedList(arg) == IF arg = "L" THEN cal.lists["L"] ELSE CallerLists[arg]

\* all the entries of a list are patterns of the domain type
Homogeneous(type, data) ==
    /\ Len(data) = FIXED_LENGTH
    /\ \A i \in 1..Len(data) : RuleSetType(data[i]) = type

\* C21: every calendar has exactly 365 entries, all of one domain, which is
\* the type the calendar declares; constructing a calendar from a list with
\* another number of entries, or with entries of disagreeing domains, fails
\* with ValueError; and neither apply nor from_compact, whatever the domain
\* of the pattern given, yields a calendar whose entries disagree with each
\* other or with the declared type.
C21_CalendarsAreHomogeneous ==
    /\ \A n \in ScheduleNames :
          cal.scheds[n] # NoSchedule
              => Homogeneous(cal.scheds[n].type, ListOf(cal, n))
    /\ (res.op = "new" /\ res.arg \notin {"default", "none"})
          => LET given == PassedList(res.arg)
             IN  (\/ Len(given) # FIXED_LENGTH
                  \/ \E i \in 1..Len(given) :
                        RuleSetType(given[i]) # RuleSetType(given[1]))
                     => (~res.out.ok /\ res.out.err = "ValueError")
    /\ (res.op \in {"apply_copy", "from_compact"} /\ res.out.ok)
          => Homogeneous(res.out.val.type, res.out.val.data)

\* two references name patterns of the same content
SamePattern(a, b) == Contents[a.name] = Contents[b.name]

\* the receiver's list before the call res records
ReceiverBefore == res.before[cal.scheds[res.name].data]

\* the days of the range of the call res records
DaysOfRes == TokenDay(res.start)..TokenDay(res.end)

\* C22: apply with inplace false returns a new calendar that has the given
\* pattern on every day of [start, end] and the receiver's patterns on the
\* other days, and leaves the receiver's 365 entries as they were; apply with
\* inplace true changes the receiver itself, on the days of the range only,
\* and returns nothing.
C22_ApplyCopyLeavesReceiver ==
    /\ (res.op = "apply_copy" /\ res.out.ok)
          => /\ Len(res.out.val.data) = FIXED_LENGTH
             /\ \A d \in 1..FIXED_LENGTH :
                   IF d \in DaysOfRes
                   THEN res.out.val.data[d] = res.ruleset
                   ELSE SamePattern(res.out.val.data[d], ReceiverBefore[d])
             /\ ListOf(cal, res.name) = ReceiverBefore
    /\ res.op = "apply_inplace"
          => /\ res.out = Ok(None)
             /\ \A d \in 1..FIXED_LENGTH :
                   ListOf(cal, res.name)[d] =
                       IF d \in DaysOfRes THEN res.ruleset ELSE ReceiverBefore[d]

\* a copy-returning apply whose result differs from the calendar it was
\* called on, a calendar that an earlier in-place apply had changed
C22_Witness ==
    /\ res.op = "apply_copy"
    /\ res.out.ok
    /\ res.out.val.data[TokenDay(res.start)] # ListOf(cal, res.name)[TokenDay(res.start)]
    /\ cal.calls > 0

\* C28: calendars share no mutable state: an in-place apply on one calendar
\* changes no entry of a calendar made by another constructor call, and no
\* entry of the list the caller passed to a constructor, also when two
\* calendars were constructed from the same list object.
C28_CalendarsShareNothing ==
    res.op = "apply_inplace"
    => /\ \A n \in ScheduleNames \ {res.name} :
             cal.scheds[n] # NoSchedule
                 => ListOf(cal, n) = res.before[cal.scheds[n].data]
       /\ cal.lists["L"] = res.before["L"]

(***************************************************************************)
(* The lifted layer: two calendars a and b of one domain, and one          *)
(* operation of the calendar algebra on them.  Schedule defines min, max   *)
(* and normalize_by_max only; the operators + and * are those it inherits  *)
(* from UserList, and the other operations have no method at all.          *)
(***************************************************************************)
\* RuleSet.__truediv__
RuleSet_truediv(self, value) ==
    LET items == UnpackItems(self)
    IN  IF ~items.ok
        THEN items
        ELSE RuleSet_init([k \in {"type"} |-> self.type])

\* the list self.data * n
RECURSIVE ListRepeat(_, _)
ListRepeat(data, n) == IF n <= 0 THEN <<>> ELSE data \o ListRepeat(data, n - 1)

\* UserList.__add__ of a Schedule: self.__class__(self.data + other.data),
\* a call of Schedule.__init__ with one positional argument, which is bound
\* to name, so the result is the default calendar
UserList_add(self, other, gen) ==
    Ok([name |-> self \o other, data |-> Schedule_init(gen)])

\* UserList.__mul__ of a Schedule: self.__class__(self.data * n)
UserList_mul(self, n, gen) ==
    Ok([name |-> ListRepeat(self, n), data |-> Schedule_init(gen)])

\* a - b and a / k: neither Schedule nor UserList defines the operator
Schedule_sub(self, other) == Err("TypeError")

Schedule_truediv(self, value) == Err("TypeError")

\* a.element_min(b) and a.element_max(b): no such attribute
Schedule_element_min(self, other) == Err("AttributeError")

Schedule_element_max(self, other) == Err("AttributeError")

\* the calendars of the layer: the default calendar of a constructor call,
\* with one pattern applied in place on one range or with none
LiftCalendars(gen) ==
    {Schedule_init(gen)} \cup
    {Schedule_apply(Schedule_init(gen), r, Str(se[1]), Str(se[2]), TRUE, 0).self :
        r \in {Ref("A", 0), Ref("B", 0)},
        se \in {<<<<0, 3, 0, 1>>, <<0, 6, 3, 0>>>>, <<<<0, 5, 0, 1>>, <<1, 2, 3, 1>>>>}}

\* the integer scalars of the layer
LiftScalars == {0, 2}

InitLift ==
    /\ \E a \in LiftCalendars(1), b \in LiftCalendars(2) : cal = [a |-> a, b |-> b]
    /\ log = <<>>
    /\ day = Idle
    /\ bp = <<>>
    /\ week = Idle
    /\ res = Idle

\* a run of the model makes one call on the two calendars
\* cal.a + cal.b
CalAdd ==
    /\ res = Idle
    /\ res' = [op |-> "add", k |-> 0, out |-> UserList_add(cal.a, cal.b, 3)]
    /\ UNCHANGED <<day, bp, week, cal, log>>

\* cal.a - cal.b
CalSub ==
    /\ res = Idle
    /\ res' = [op |-> "sub", k |-> 0, out |-> Schedule_sub(cal.a, cal.b)]
    /\ UNCHANGED <<day, bp, week, cal, log>>

\* cal.a * k
CalMul(k) ==
    /\ res = Idle
    /\ res' = [op |-> "mul", k |-> k, out |-> UserList_mul(cal.a, k, 3)]
    /\ UNCHANGED <<day, bp, week, cal, log>>

\* cal.a / k
CalTrueDiv(k) ==
    /\ res = Idle
    /\ res' = [op |-> "truediv", k |-> k, out |-> Schedule_truediv(cal.a, k)]
    /\ UNCHANGED <<day, bp, week, cal, log>>

\* cal.a.element_min(cal.b)
CalElementMin ==
    /\ res = Idle
    /\ res' = [op |-> "element_min", k |-> 0,
               out |-> Schedule_element_min(cal.a, cal.b)]
    /\ UNCHANGED <<day, bp, week, cal, log>>

\* cal.a.element_max(cal.b)
CalElementMax ==
    /\ res = Idle
    /\ res' = [op |-> "element_max", k |-> 0,
               out |-> Schedule_element_max(cal.a, cal.b)]
    /\ UNCHANGED <<day, bp, week, cal, log>>

NextLift ==
    \/ CalAdd
    \/ CalSub
    \/ \E k \in LiftScalars : CalMul(k)
    \/ \E k \in LiftScalars \ {0} : CalTrueDiv(k)
    \/ CalElementMin
    \/ CalElementMax

SpecLift == InitLift /\ [][NextLift]_vars

\* the RuleSet operation a calendar operation lifts, on the patterns of a day
RuleSetOp(op, p, q, k) ==
    CASE op = "add"         -> RuleSet_add(p, q)
      [] op = "sub"         -> RuleSet_sub(p, q)
      [] op = "mul"         -> RuleSet_mul(p, k)
      [] op = "truediv"     -> RuleSet_truediv(p, k)
      [] op = "element_min" -> RuleSet_element_min(p, q)
      [] op = "element_max" -> RuleSet_element_max(p, q)

\* the operations of the calendar algebra the layer calls
LiftOps == {"add", "sub", "mul", "truediv", "element_min", "element_max"}

\* C23: add, subtract, multiplyByScalar, divideByScalar, elementMin and
\* elementMax on calendars of one domain return a calendar whose pattern on
\* each day of the year is the same operation of the WeeklyPattern algebra on
\* the two calendars' patterns of that day (on the first calendar's pattern
\* and the scalar for the two scalar operations).
C23_LiftedDayByDay ==
    res.op \in LiftOps
    => /\ res.out.ok
       /\ Len(res.out.val.data) = FIXED_LENGTH
       /\ \A t \in {<<cal.a[d].name, cal.b[d].name, res.out.val.data[d].name>> :
                        d \in 1..FIXED_LENGTH} :
             LET expected == RuleSetOp(res.op, Contents[t[1]], Contents[t[2]], res.k)
             IN  /\ expected.ok
                 /\ Contents[t[3]] = expected.val

(***************************************************************************)
(* The export layer: a Profile of up to six calendars and its export.  A   *)
(* str is the sequence of its pieces, every formatted number a sequence of *)
(* digit characters.                                                       *)
(***************************************************************************)
DigitChar == <<"0", "1", "2", "3", "4", "5", "6", "7", "8", "9">>

\* str(n) and f"{n}" of an int
RECURSIVE StrOfInt(_)
StrOfInt(n) ==
    IF n < 0
    THEN <<"-">> \o StrOfInt(0 - n)
    ELSE IF n < 10
         THEN <<DigitChar[n + 1]>>
         ELSE StrOfInt(n \div 10) \o <<DigitChar[(n % 10) + 1]>>

\* f"{n:02d}" of an int that is not negative
TwoDigits(n) == IF n < 10 THEN <<"0">> \o StrOfInt(n) ELSE StrOfInt(n)

\* sum(lists, start=[])
RECURSIVE Flatten(_)
Flatten(lists) ==
    IF Len(lists) = 0 THEN <<>> ELSE Head(lists) \o Flatten(Tail(lists))

\* IdfObject(class_name, fields), kept as the arguments of the call
IdfObject(class_name, fields) == [class |-> class_name, fields |-> fields]

\* the fields of one day_schedule: [f"Until: {hh:02d}:{mm:02d}", str(value)]
\* for every tuple of day_schedule.compactize()
UntilFields(day_schedule) ==
    LET compact == DaySchedule_compactize(day_schedule)
    IN  Flatten([i \in 1..Len(compact) |->
            <<<<"Until: ">> \o TwoDigits(compact[i][1]) \o <<":">>
                           \o TwoDigits(compact[i][2]),
              StrOfInt(compact[i][3])>>])

\* the fields of one run: f"For: {condition}" and the Until fields, for the
\* weekdays, the weekends and again the weekdays profile of the ruleset
ForFields(ruleset) ==
    LET day_schedules == <<ruleset.weekdays, ruleset.weekends, ruleset.weekdays>>
        conditions    == <<"Weekdays", "Weekends", "AllOtherDays">>
    IN  Flatten([i \in 1..3 |->
            IF day_schedules[i] = None
            THEN <<>>
            ELSE <<<<"For: ", conditions[i]>>>> \o UntilFields(day_schedules[i])])

\* the export that writes the first date of each run after "Through: "
ScheduleExportMutant(self) ==
    LET runs == Schedule_compactize(self.data)
    IN  IdfObject("Schedule:Compact",
            <<self.name, "">> \o
            Flatten([k \in 1..Len(runs) |->
                <<<<"Through: ">> \o StrOfInt(runs[k][1].v[1]) \o <<"/">>
                                 \o StrOfInt(runs[k][1].v[2])>>
                \o ForFields(Contents[runs[k][3].name])]))

\* Schedule.to_idf_object of the calendar self = [name, data]
Schedule_to_idf_object(self) ==
    LET runs == Schedule_compactize(self.data)
    IN  IdfObject("Schedule:Compact",
            <<self.name, "">> \o
            Flatten([k \in 1..Len(runs) |->
                <<<<"Through: ">> \o StrOfInt(runs[k][2].v[1]) \o <<"/">>
                                 \o StrOfInt(runs[k][2].v[2])>>
                \o ForFields(Contents[runs[k][3].name])]))

\* the attributes of a Profile, in the order to_idf_object lists them
ProfileSlots ==
    <<"heating_setpoint", "cooling_setpoint", "hvac_availability",
      "occupant", "lighting", "equipment">>

\* Profile(name, **kwargs): an argument left out is None
Profile_init(kwargs) ==
    [s \in {ProfileSlots[i] : i \in 1..6} |->
        IF s \in DOMAIN kwargs THEN kwargs[s] ELSE None]

\* the export that empties the Profile it is called on
ProfileConsumeMutant(self) ==
    [val |-> Flatten([i \in 1..6 |->
                IF self[ProfileSlots[i]] = None
                THEN <<>>
                ELSE <<Schedule_to_idf_object(self[ProfileSlots[i]])>>]),
     self |-> Profile_init(NoKw)]

\* the export that lists the equipment calendar first
ProfileExportMutant(self) ==
    LET order == <<6, 1, 2, 3, 4, 5>>
    IN  [val |-> Flatten([i \in 1..6 |->
                    IF self[ProfileSlots[order[i]]] = None
                    THEN <<>>
                    ELSE <<Schedule_to_idf_object(self[ProfileSlots[order[i]]])>>]),
         self |-> self]

\* Profile.to_idf_object: val is the list it returns, self the Profile after
\* the call, which writes no attribute of it
Profile_to_idf_object(self) ==
    [val |-> Flatten([i \in 1..6 |->
                IF self[ProfileSlots[i]] = None
                THEN <<>>
                ELSE <<Schedule_to_idf_object(self[ProfileSlots[i]])>>]),
     self |-> self]

\* the calendar the model may give each attribute: each has its own name and
\* its own sequence of apply calls on a default calendar
ExportCalendar(slot) ==
    LET base == Schedule_init(1)
        on(data, name, s, e) ==
            Schedule_apply(data, Ref(name, 0), Str(s), Str(e), TRUE, 0).self
    IN  [name |-> slot,
         data |->
            CASE slot = "heating_setpoint"  -> base
              [] slot = "cooling_setpoint"  ->
                    on(base, "A", <<0, 3, 0, 1>>, <<0, 6, 3, 0>>)
              [] slot = "hvac_availability" ->
                    on(base, "O", <<0, 1, 0, 1>>, <<1, 2, 3, 1>>)
              [] slot = "occupant"          ->
                    on(base, "B", <<0, 5, 0, 1>>, <<1, 2, 3, 1>>)
              [] slot = "lighting"          ->
                    on(on(base, "A", <<0, 1, 0, 1>>, <<1, 2, 3, 1>>),
                       "B", <<0, 2, 0, 1>>, <<0, 2, 2, 8>>)
              [] slot = "equipment"         ->
                    on(base, "A", <<0, 1, 0, 1>>, <<0, 1, 0, 1>>)]

InitExport ==
    /\ \E present \in SUBSET {ProfileSlots[i] : i \in 1..6} :
          cal = Profile_init([s \in present |-> ExportCalendar(s)])
    /\ log = <<>>
    /\ day = Idle
    /\ bp = <<>>
    /\ week = Idle
    /\ res = Idle

\* cal.to_idf_object()
Export ==
    LET r == Profile_to_idf_object(cal)
    IN  /\ res = Idle
        /\ cal' = r.self
        /\ res' = [op |-> "export", before |-> cal, out |-> r.val]
        /\ UNCHANGED <<day, bp, week, log>>

\* cal.to_idf_object() once more
ExportAgain ==
    LET r == Profile_to_idf_object(cal)
    IN  /\ res.op = "export"
        /\ cal' = r.self
        /\ res' = [op |-> "export_again", before |-> res.before,
                   first |-> res.out, out |-> r.val]
        /\ UNCHANGED <<day, bp, week, log>>

NextExport ==
    \/ Export
    \/ ExportAgain

SpecExport == InitExport /\ [][NextExport]_vars

\* reading an exported block back: the fields after the name and the empty
\* field, the kind of a field, and the numbers its digits spell
FieldsOf(block) == SubSeq(block.fields, 3, Len(block.fields))

Kind(field) ==
    IF field[1] \in {"Through: ", "For: ", "Until: "} THEN field[1] ELSE "value"

DigitVal(c) == CHOOSE n \in 0..9 : DigitChar[n + 1] = c

RECURSIVE IntOfStr(_)
IntOfStr(s) ==
    IF s[1] = "-"
    THEN 0 - IntOfStr(Tail(s))
    ELSE IF Len(s) = 1
         THEN DigitVal(s[1])
         ELSE 10 * IntOfStr(SubSeq(s, 1, Len(s) - 1)) + DigitVal(s[Len(s)])

\* "Until: hh:mm" is exactly two digits, a colon and two digits
UntilWellFormed(field) ==
    /\ Len(field) = 6
    /\ field[4] = ":"
    /\ \A i \in {2, 3, 5, 6} : \E n \in 0..9 : DigitChar[n + 1] = field[i]

UntilTime(field) ==
    <<IntOfStr(SubSeq(field, 2, 3)), IntOfStr(SubSeq(field, 5, 6))>>

ThroughDate(field) ==
    LET slash == CHOOSE i \in 3..(Len(field) - 1) : field[i] = "/"
    IN  <<IntOfStr(SubSeq(field, 2, slash - 1)),
          IntOfStr(SubSeq(field, slash + 1, Len(field)))>>

\* the positions of the fields of the given kinds, and the first of them
\* after position i (one past the end if there is none)
PositionsOf(fields, kinds) == {i \in 1..Len(fields) : Kind(fields[i]) \in kinds}

NextOf(fields, kinds, i) ==
    LET later == {j \in PositionsOf(fields, kinds) : j > i}
    IN  IF later = {}
        THEN Len(fields) + 1
        ELSE CHOOSE j \in later : \A l \in later : j <= l

\* the position of the k-th "Through: " field, and the fields of its run
ThroughAt(fields, k) ==
    LET th == PositionsOf(fields, {"Through: "})
    IN  CHOOSE i \in th : Cardinality({j \in th : j <= i}) = k

RunFields(fields, k) ==
    SubSeq(fields, ThroughAt(fields, k),
           NextOf(fields, {"Through: "}, ThroughAt(fields, k)) - 1)

\* the "For: " blocks of the fields of a run: the label of each and the
\* fields that follow it up to the next marker
ForBlocksOf(run) ==
    {[label |-> run[i][2],
      pairs |-> SubSeq(run, i + 1, NextOf(run, {"For: ", "Through: "}, i) - 1)] :
        i \in PositionsOf(run, {"For: "})}

\* the calendar a block was exported from, by the name in its first field
ExportedFrom(block) == cal[block.fields[1]]

\* C24: in the export of a calendar the fields of each run hold one "For"
\* marker per distinct intraday profile the run's pattern refers to; every
\* per-day or holiday override the pattern has set is emitted in a "For"
\* block of its own; and a pattern with no such override has its weekdays
\* default emitted under the "AllOtherDays" label.
C24_ForBlockPerProfile ==
    res.op = "export"
    => \A b \in 1..Len(res.out) :
          LET fields == FieldsOf(res.out[b])
              runs   == Schedule_compactize(ExportedFrom(res.out[b]).data)
          IN  \A k \in 1..Len(runs) :
                 LET p      == Contents[runs[k][3].name]
                     blocks == ForBlocksOf(RunFields(fields, k))
                     over   == {c \in Categories \ {"weekdays", "weekends"} :
                                   p[c] # None}
                 IN  /\ Cardinality(PositionsOf(RunFields(fields, k), {"For: "}))
                          = Cardinality({p[c] : c \in Categories} \ {None})
                     /\ \A c \in over :
                           \E blk \in blocks : blk.pairs = UntilFields(p[c])
                     /\ (over = {})
                           => \E blk \in blocks :
                                 /\ blk.label = "AllOtherDays"
                                 /\ blk.pairs = UntilFields(p.weekdays)

\* the profile of a pattern that a "For" label stands for
ProfileOfLabel(p, label) ==
    IF label = "Weekends" THEN p.weekends ELSE p.weekdays

\* C25: the export of a calendar has one "Through: month/day" field per run
\* of its compact form, with the run's end date, in the order of the year,
\* the last being 12/31; each is followed by its "For" markers, and each
\* "For" marker by one "Until: hh:mm" field and one value field per
\* breakpoint of the compact form of its profile, the times increasing and
\* the last 24:00.
C25_ThroughForUntil ==
    res.op = "export"
    => \A b \in 1..Len(res.out) :
          LET fields == FieldsOf(res.out[b])
              runs   == Schedule_compactize(ExportedFrom(res.out[b]).data)
              n      == Len(fields)
          IN  /\ Cardinality(PositionsOf(fields, {"Through: "})) = Len(runs)
              /\ \A k \in 1..Len(runs) :
                    /\ ThroughDate(fields[ThroughAt(fields, k)]) = runs[k][2].v
                    /\ k < Len(runs)
                          => /\ ThroughAt(fields, k) < ThroughAt(fields, k + 1)
                             /\ ~DateLe(runs[k + 1][2].v, runs[k][2].v)
                    /\ k = Len(runs) => runs[k][2].v = <<12, 31>>
                    /\ \A blk \in ForBlocksOf(RunFields(fields, k)) :
                          LET compact == DaySchedule_compactize(
                                  ProfileOfLabel(Contents[runs[k][3].name], blk.label))
                          IN  /\ Len(blk.pairs) = 2 * Len(compact)
                              /\ \A i \in 1..Len(compact) :
                                    /\ UntilTime(blk.pairs[2 * i - 1])
                                         = <<compact[i][1], compact[i][2]>>
                                    /\ IntOfStr(blk.pairs[2 * i]) = compact[i][3]
              /\ n > 0 /\ Kind(fields[1]) = "Through: "
              /\ \A i \in 1..n :
                    /\ Kind(fields[i]) = "Through: "
                          => (i < n /\ Kind(fields[i + 1]) = "For: ")
                    /\ Kind(fields[i]) = "For: "
                          => (i < n /\ Kind(fields[i + 1]) = "Until: ")
                    /\ Kind(fields[i]) = "Until: "
                          => /\ UntilWellFormed(fields[i])
                             /\ i < n /\ Kind(fields[i + 1]) = "value"
                             /\ (i + 2 <= n /\ Kind(fields[i + 2]) = "Until: ")
                                   => TimeLt(UntilTime(fields[i]),
                                             UntilTime(fields[i + 2]))
                             /\ (i + 2 > n \/ Kind(fields[i + 2]) # "Until: ")
                                   => UntilTime(fields[i]) = <<24, 0>>
                    /\ Kind(fields[i]) = "value"
                          => Kind(fields[i - 1]) = "Until: "

\* the export of a calendar of three runs, one of them of a pattern whose
\* weekdays profile has two breakpoints
C25_Witness ==
    /\ res.op = "export"
    /\ \E b \in 1..Len(res.out) :
          /\ Cardinality(PositionsOf(FieldsOf(res.out[b]), {"Through: "})) = 3
          /\ \E i \in 1..(Len(FieldsOf(res.out[b])) - 2) :
                /\ Kind(FieldsOf(res.out[b])[i]) = "Until: "
                /\ Kind(FieldsOf(res.out[b])[i + 2]) = "Until: "

\* the attributes of the Profile that hold a calendar, in the order of export
PresentSlots == SelectSeq(ProfileSlots, LAMBDA s : cal[s] # None)

\* C26: the export of a Profile is a list of exactly one block for each
\* calendar the Profile holds, in the order heating setpoint, cooling
\* setpoint, HVAC availability, occupant, lighting, equipment, and nothing
\* for a calendar it does not hold; the export of an empty Profile is the
\* empty list.
C26_OneBlockPerPresentCalendar ==
    res.op = "export"
    => /\ Len(res.out) = Len(PresentSlots)
       /\ \A i \in 1..Len(res.out) :
             /\ res.out[i].class = "Schedule:Compact"
             /\ res.out[i].fields[1] = cal[PresentSlots[i]].name
             /\ res.out[i] = Schedule_to_idf_object(cal[PresentSlots[i]])
       /\ (\A s \in DOMAIN cal : cal[s] = None) => res.out = <<>>

\* the export of a Profile that holds the cooling, the lighting and the
\* equipment calendars and lacks the three others
C26_Witness ==
    /\ res.op = "export"
    /\ PresentSlots = <<"cooling_setpoint", "lighting", "equipment">>
    /\ Len(res.out) = 3

=============================================================================
